---------------------------- MODULE Spec2Model ----------------------------
(***************************************************************************)
(* A model of the audio engine of react-native-audio-lab                   *)
(* (src/native/audio): the per-voice envelope and the two voice kinds, the *)
(* instruments, and the AudioEngine with its channel map, its instrument   *)
(* lock and its render callback.                                           *)
(*                                                                         *)
(* Numbers.  The code computes in float/double.  The model computes in     *)
(* fixed point over the integers: every quantity has a named unity (the    *)
(* integer that stands for 1.0) and a product a*g is (a*g) \div unity.     *)
(* Times are counted in samples, sample rates in units of 22050 Hz.        *)
(*                                                                         *)
(* The specifications share the definitions and the variables:             *)
(*   VoiceSpec  one voice of either kind driven through the calls that     *)
(*              juce::Synthesiser makes on it (startNote, stopNote,        *)
(*              renderNextBlock);                                          *)
(*   Spec       the engine's control API, one step per call;               *)
(*   MixSpec    notes, the master volume and the render callback, one step *)
(*              each, with the audio arithmetic;                           *)
(*   RaceSpec   the engine with its threads: a control thread, whose       *)
(*              per-channel calls take the lock only for the map lookup,   *)
(*              and the audio thread, whose callback holds the lock while  *)
(*              it visits the instruments;                                 *)
(*   SampleSpec the sample slots of a sampler instrument;                  *)
(*   ChainSpec  the effects chain of an instrument, without rendering;     *)
(*   EffectSpec rendering through the effects chain;                       *)
(*   LevelSpec  volume and pan, from the constructor and from the setters; *)
(*   NotesSpec  notes, allNotesOff and the callback on both voice kinds;   *)
(*   StartSpec  the start of the device beside the create calls;           *)
(*   LifeSpec   the lifetime of instruments and sounds: a second control   *)
(*              thread that removes what the first one looked up;          *)
(*   OrderSpec  a delay and a filter chained in the two orders;            *)
(*   SizeSpec   the size of the mix buffer against the callback's frames;  *)
(*   StageSpec  the stages of an oscillator instrument's render;           *)
(*   DelaySpec  one delay processor and the calls made on it;              *)
(*   PoolSpec   the voice pools, from polyphonies of any sign;             *)
(*   ZoneSpec   the note ranges of a sampler's sounds;                     *)
(*   ToneSpec   the three oscillators of one oscillator voice;             *)
(*   LockSpec   the threads that wait for the instrument lock, and         *)
(*   FairSpec   the same under a fair scheduler.                           *)
(***************************************************************************)
EXTENDS Integers, Sequences, FiniteSets, TLC

VARIABLES
    \* ---- VoiceSpec ----
    voice,          \* the voice under test (a voice record, see NewVoice)
    vrate,          \* the voice's playback sample rate (getSampleRate())
    vblock,         \* what the last renderNextBlock did: frames written, reads
    vop,            \* the last call made on the voice
    \* ---- Spec, MixSpec and RaceSpec ----
    instruments,    \* AudioEngine::instruments: channel -> instrument record
    masterVolume,   \* AudioEngine::masterVolume
    outputBuffer,   \* the callback's outputBuffer: channel -> frame -> sample
    outShape,       \* the destination's shape: [chans, frames]
    ret,            \* the last completed API call and what it returned
    instrumentLock, \* AudioEngine::instrumentLock: "free" or its holder
    ctl,            \* the control thread: where it is in a per-channel call
    rt,             \* the audio thread: where it is in the callback
    crashed,        \* a race on an effects chain took the process down
    dangling,       \* the instrument the control thread looked up is destroyed
    \* ---- the device ----
    currentSampleRate, \* AudioEngine::currentSampleRate
    currentBlockSize,  \* AudioEngine::currentBlockSize
    mixBuffer,      \* the size of AudioEngine::mixBuffer: [chans, frames]
    device,         \* the thread that starts the device: where it is
    \* ---- OrderSpec ----
    chains,         \* two effect chains under test and what they last put out
    \* ---- DelaySpec ----
    dly             \* a delay processor under test, the last call on it, and
                    \* a history: what its line was given since it was sized

voiceVars  == <<voice, vrate, vblock, vop>>
engineVars == <<instruments, masterVolume, outputBuffer, outShape, ret>>
threadVars == <<instrumentLock, ctl, rt, crashed>>
deviceVars == <<currentSampleRate, currentBlockSize, mixBuffer, device>>
vars       == <<voiceVars, engineVars, threadVars, dangling, deviceVars,
chains, dly>>

-----------------------------------------------------------------------------
(* Fixed point                                                             *)

\* 1.0 of an envelope level (juce::ADSR clamps the attack at 1.0f).
EnvOne == 4
\* 1.0 of a note velocity.
VelOne == 2
\* One source frame of sourceSamplePosition: positions count quarter frames.
PosOne == 4
\* 1.0 of an instrument volume, a pan position and a pan gain.
GainOne == 4
\* 1.0f of the master volume (masterVolume = 1.0f).
MasterOne == 2

FxMul(a, g, one) == (a * g) \div one

CeilDiv(a, b) == (a + b - 1) \div b

Abs(a) == IF a < 0 THEN -a ELSE a

\* The clamp without its upper limit.
jlimitNoUpper(lo, hi, v) == IF v < lo THEN lo ELSE v

\* juce::jlimit(lo, hi, v)
jlimit(lo, hi, v) == IF v < lo THEN lo ELSE IF hi < v THEN hi ELSE v

-----------------------------------------------------------------------------
(* juce::ADSR, the envelope member of both voice kinds                     *)
(* (BaseOscillatorVoice.h:80, MultisamplerVoice.h:39).  A parameter record *)
(* holds attack, decay and release as durations in samples (seconds times  *)
(* the envelope's sample rate) and sustain as a level.                     *)

AdsrStates == {"idle", "attack", "decay", "sustain", "release"}

\* getRate: distance / (time * sampleRate), or -1 when the time is zero.
AdsrRate(distance, time) == IF time > 0 THEN CeilDiv(distance, time) ELSE -1

AttackRate(p) == AdsrRate(EnvOne, p.attack)

DecayRate(p) == AdsrRate(EnvOne - p.sustain, p.decay)

\* reset()
AdsrReset(a) == [a EXCEPT !.state = "idle", !.val = 0]

\* goToNextState()
AdsrGoToNextState(a) ==
    CASE a.state = "attack" ->
           [a EXCEPT !.state = IF DecayRate(a.p) > 0 THEN "decay" ELSE "sustain"]
      [] a.state = "decay" -> [a EXCEPT !.state = "sustain"]
      [] a.state = "release" -> AdsrReset(a)
      [] OTHER -> a

\* setParameters(), which ends in recalculateRates()
AdsrSetParameters(a, p) ==
    LET b == [a EXCEPT !.p = p, !.rel = AdsrRate(p.sustain, p.release)]
    IN  IF \/ b.state = "attack" /\ AttackRate(p) <= 0
           \/ b.state = "decay" /\ (DecayRate(p) <= 0 \/ b.val <= p.sustain)
           \/ b.state = "release" /\ b.rel <= 0
        THEN AdsrGoToNextState(b)
        ELSE b

\* A default-constructed juce::ADSR that was given its parameters.
AdsrNew(p) ==
    AdsrSetParameters([state |-> "idle", val |-> 0, rel |-> 0, p |-> p], p)

AdsrIsActive(a) == a.state # "idle"

\* noteOn(): the level is not reset when there is an attack phase.
AdsrNoteOn(a) ==
    IF AttackRate(a.p) > 0 THEN [a EXCEPT !.state = "attack"]
    ELSE IF DecayRate(a.p) > 0 THEN [a EXCEPT !.state = "decay", !.val = EnvOne]
    ELSE [a EXCEPT !.state = "sustain", !.val = a.p.sustain]

\* noteOff(): the release rate is taken from the level at the note-off.
AdsrNoteOff(a) ==
    IF a.state = "idle" THEN a
    ELSE IF a.p.release > 0
         THEN [a EXCEPT !.state = "release", !.rel = CeilDiv(a.val, a.p.release)]
         ELSE AdsrReset(a)

\* getNextSample(): the envelope after one sample; its val is the value returned.
AdsrNextSample(a) ==
    CASE a.state = "idle" -> a
      [] a.state = "attack" ->
           LET v == a.val + AttackRate(a.p)
           IN  IF v >= EnvOne THEN AdsrGoToNextState([a EXCEPT !.val = EnvOne])
               ELSE [a EXCEPT !.val = v]
      [] a.state = "decay" ->
           LET v == a.val - DecayRate(a.p)
           IN  IF v <= a.p.sustain
               THEN AdsrGoToNextState([a EXCEPT !.val = a.p.sustain])
               ELSE [a EXCEPT !.val = v]
      [] a.state = "sustain" -> [a EXCEPT !.val = a.p.sustain]
      [] a.state = "release" ->
           LET v == a.val - a.rel
           IN  IF v <= 0 THEN AdsrGoToNextState([a EXCEPT !.val = v])
               ELSE [a EXCEPT !.val = v]


-----------------------------------------------------------------------------
(* Voices.  One record type serves both kinds; a kind leaves the other     *)
(* kind's fields at their initial values.                                  *)
(*   note    juce::SynthesiserVoice::currentlyPlayingNote, -1 when none:   *)
(*           isVoiceActive() is note >= 0, clearCurrentNote() sets -1      *)
(*   adsr    the envelope                                                  *)
(*   vel     noteVelocity                                                  *)
(*   wave, phase1, delta1     voiceParams.waveform1, phase1, phaseDelta1   *)
(*   detune1                  voiceParams.detuneCents1, in cents           *)
(*   wave2, level2, semi2, detune2   voiceParams.waveform2, osc2Level,     *)
(*           osc2Semi (semitones), detuneCents2 (cents)                    *)
(*   phase2, delta2           phase2, phaseDelta2                          *)
(*   subLevel, phaseSub, deltaSub    voiceParams.subLevel, phaseSub,       *)
(*           phaseDeltaSub; the levels are in units of GainOne             *)
(*   pos, ratio               sourceSamplePosition, pitchRatio             *)
(*   len, nch, root, srate    soundLength, the channels behind             *)
(*           leftChannelData/rightChannelData (0: leftChannelData is       *)
(*           nullptr), soundRootNote, soundSampleRate                      *)
(*   pcm     the memory leftChannelData and rightChannelData point to:     *)
(*           "none" (nullptr), "live" (a sound of the bank), "owned" (a    *)
(*           sound only voices still refer to), "freed" (a destroyed sound)*)

NoNote == -1

\* One full cycle (twoPi) of an oscillator phase, in eighths of a turn.
PhaseCycle == 8
\* 1.0 of an oscillator's waveform value.
OscOne == 20

Waveforms == {"Sine", "Saw", "Square", "Triangle"}

NewVoice(kind, p) ==
    [kind |-> kind, note |-> NoNote, adsr |-> AdsrNew(p), vel |-> VelOne,
     wave |-> "Sine", phase1 |-> 0, delta1 |-> 0, detune1 |-> 0,
     wave2 |-> "Sine", level2 |-> 0, semi2 |-> 0, detune2 |-> 0,
     phase2 |-> 0, delta2 |-> 0,
     subLevel |-> 0, phaseSub |-> 0, deltaSub |-> 0,
     pos |-> 0, ratio |-> PosOne, len |-> 0, nch |-> 0, root |-> 60, srate |-> 2,
     pcm |-> "none"]

IsVoiceActive(v) == v.note >= 0

\* The voice that holds no reference to the sound it plays.
HoldsSoundNever(v) == FALSE

\* juce::SynthesiserVoice::currentlyPlayingSound is a counted reference to
\* the sound: startVoice sets it with the note, clearCurrentNote drops it
\* with the note.
HoldsSound(v) == IsVoiceActive(v)

\* juce::SynthesiserVoice::clearCurrentNote.  A sound the bank has dropped
\* goes with the reference.
ClearCurrentNote(v) ==
    [v EXCEPT !.note = NoNote,
              !.pcm = IF @ = "owned" /\ HoldsSound(v) THEN "freed" ELSE @]

\* 2^(semis/12) as <<numerator, denominator>>, for whole octaves.
Pow2Semis(semis) ==
    CASE semis = -24 -> <<1, 4>>
      [] semis = -12 -> <<1, 2>>
      [] semis = 0 -> <<1, 1>>
      [] semis = 12 -> <<2, 1>>
      [] semis = 24 -> <<4, 1>>

\* std::sin at the eight phases of the model's cycle.
SineTable == <<0, 14, 20, 14, 0, -14, -20, -14>>

\* BaseOscillatorVoice::getOscValue
getOscValue(wf, phase) ==
    CASE wf = "Sine" -> SineTable[(phase % PhaseCycle) + 1]
      [] wf = "Saw" -> (2 * OscOne * phase) \div PhaseCycle - OscOne
      [] wf = "Square" -> IF 2 * phase < PhaseCycle THEN OscOne ELSE -OscOne
      [] wf = "Triangle" ->
           2 * Abs((2 * OscOne * phase) \div PhaseCycle - OscOne) - OscOne

\* freq * std::pow(2.0, cents / 1200.0) * twoPi / sr for a note and a detune
\* that are octave multiples away from note 60, which advances a quarter
\* turn per sample at 44100 Hz.
PhaseDeltaOf(note, cents, rate) ==
    LET r == Pow2Semis(note - 60 + cents \div 100)
    IN  (2 * r[1] * 2) \div (r[2] * rate)

\* "(freq1 * 0.5) * twoPi / sr"
SubDeltaOf(note, cents, rate) ==
    LET r == Pow2Semis(note - 60 + cents \div 100)
    IN  (2 * r[1] * 2) \div (2 * r[2] * rate)

\* The phase increment of oscillator 2 for a note under the voice's
\* parameters: "freqHz * std::pow(2.0, (osc2Semi * 100.0 + detuneCents2) /
\* 1200.0) * twoPi / sr".
Osc2DeltaOf(v, note, rate) ==
    PhaseDeltaOf(note, v.semi2 * 100 + v.detune2, rate)

\* BaseOscillatorVoice::startNote
OscStartNote(v, note, velocity, rate) ==
    [v EXCEPT !.delta1 = PhaseDeltaOf(note, v.detune1, rate),
              !.delta2 = IF v.level2 > 0 THEN Osc2DeltaOf(v, note, rate) ELSE @,
              !.deltaSub = IF v.subLevel > 0
                           THEN SubDeltaOf(note, v.detune1, rate) ELSE @,
              !.phase1 = 0,
              !.phase2 = 0,
              !.phaseSub = 0,
              !.vel = velocity,
              !.adsr = AdsrNoteOn(v.adsr)]

\* "phase += phaseDelta; if (phase >= twoPi) phase -= twoPi;"
PhaseAdvance(phase, delta) ==
    IF phase + delta >= PhaseCycle THEN phase + delta - PhaseCycle
    ELSE phase + delta

\* A hard stop that forgets clearCurrentNote().
OscStopNoteKeepsNote(v, allowTailOff) ==
    LET a == AdsrNoteOff(v.adsr)
        w == [v EXCEPT !.adsr = a]
    IN  IF ~AdsrIsActive(a) THEN ClearCurrentNote(w) ELSE w

\* BaseOscillatorVoice::stopNote
OscStopNote(v, allowTailOff) ==
    LET a == AdsrNoteOff(v.adsr)
        w == [v EXCEPT !.adsr = a]
    IN  IF ~allowTailOff \/ ~AdsrIsActive(a) THEN ClearCurrentNote(w) ELSE w

\* The sample loop of BaseOscillatorVoice::renderNextBlock from frame i on
\* (noise and the per-voice filter off).  frames are the <<left, right>>
\* contributions added so far, one per frame from frame 0.
RECURSIVE OscRenderFrom(_, _, _, _)
OscRenderFrom(v, i, n, frames) ==
    IF i >= n THEN [v |-> v, frames |-> frames, reads |-> {}]
    ELSE LET a == AdsrNextSample(v.adsr)
         IN  IF ~AdsrIsActive(a)
             THEN [v |-> ClearCurrentNote([v EXCEPT !.adsr = a]),
                   frames |-> frames, reads |-> {}]
             ELSE LET hasOsc2 == v.level2 > 0
                      hasSub == v.subLevel > 0
                      osc == getOscValue(v.wave, v.phase1)
                             + (IF hasOsc2
                                THEN FxMul(getOscValue(v.wave2, v.phase2), v.level2, GainOne)
                                ELSE 0)
                             + (IF hasSub
                                THEN FxMul(getOscValue("Sine", v.phaseSub), v.subLevel, GainOne)
                                ELSE 0)
                      sample == FxMul(FxMul(osc, (v.vel * 2), 5 * VelOne),
                                      a.val, EnvOne)
                  IN  OscRenderFrom(
                          [v EXCEPT !.adsr = a,
                                    !.phase1 = PhaseAdvance(@, v.delta1),
                                    !.phase2 = IF hasOsc2
                                               THEN PhaseAdvance(@, v.delta2) ELSE @,
                                    !.phaseSub = IF hasSub
                                                 THEN PhaseAdvance(@, v.deltaSub) ELSE @],
                          i + 1, n, Append(frames, <<sample, sample>>))

\* BaseOscillatorVoice::setDetune
OscSetDetune(v, cents) == [v EXCEPT !.detune1 = cents]

\* BaseOscillatorVoice::setVoiceParams: "voiceParams = params"
OscSetVoiceParams(v, params) ==
    [v EXCEPT !.wave = params.waveform1, !.detune1 = params.detuneCents1,
              !.wave2 = params.waveform2, !.detune2 = params.detuneCents2,
              !.level2 = params.osc2Level, !.semi2 = params.osc2Semi,
              !.subLevel = params.subLevel]

\* BaseOscillatorVoice::renderNextBlock
OscRenderNextBlock(v, n) ==
    IF ~IsVoiceActive(v) THEN [v |-> v, frames |-> <<>>, reads |-> {}]
    ELSE OscRenderFrom(v, 0, n, <<>>)


-----------------------------------------------------------------------------
(* Sample playback.  A sound record is what MultiSamplerSound holds:       *)
(*   len, nch   the copied buffer's frames and channels                    *)
(*   root, lo, hi   rootNote, minNote, maxNote                             *)
(*   srate      sourceSampleRate                                           *)

\* The PCM frame k of channel ch of a loaded buffer: the test signal every
\* loaded buffer carries, a ramp, negated on the second channel.
Pcm(ch, k) == IF ch = 0 THEN 8 * (k + 1) ELSE -8 * (k + 1)

\* sourceSampleRate(44100.0) of the MultiSamplerSound constructor.
DefaultSourceRate == 2

\* MultiSamplerSound::MultiSamplerSound
NewSound(len, nch, root, lo, hi) ==
    [len |-> len, nch |-> nch,
     root |-> jlimit(0, 127, root),
     lo |-> jlimit(0, 127, lo),
     hi |-> jlimit(0, 127, hi),
     srate |-> DefaultSourceRate]

\* MultiSamplerSound::appliesToNote
appliesToNote(snd, note) == note >= snd.lo /\ note <= snd.hi

\* MultiSamplerVoice::startNote (pitchBendSemitones = 0)
SmpStartNote(v, note, velocity, snd, rate) ==
    LET r == Pow2Semis(note - snd.root)
    IN  [v EXCEPT !.pcm = IF snd.nch > 0 THEN "live" ELSE "none",
                  !.len = snd.len,
                  !.nch = snd.nch,
                  !.srate = snd.srate,
                  !.root = snd.root,
                  !.vel = velocity,
                  !.pos = 0,
                  !.ratio = (PosOne * r[1] * snd.srate) \div (r[2] * rate),
                  !.adsr = AdsrNoteOn(v.adsr)]

\* MultiSamplerVoice::stopNote
SmpStopNote(v, allowTailOff) ==
    IF allowTailOff THEN [v EXCEPT !.adsr = AdsrNoteOff(v.adsr)]
    ELSE [ClearCurrentNote(v) EXCEPT !.adsr = AdsrReset(v.adsr)]

\* The end-of-sample test with the last frame counted as readable.
SmpAtEndOffByOne(pos, len) == pos >= len

\* "if (pos >= soundLength - 1)": no frame pair is left at pos
SmpAtEnd(pos, len) == pos >= len - 1

\* The interpolation with its two weights swapped.
SmpInterpolateSwapped(ch, pos, frac) ==
    (Pcm(ch, pos) * frac + Pcm(ch, pos + 1) * (PosOne - frac)) \div PosOne

\* The linear interpolation between frames pos and pos + 1 of channel ch.
SmpInterpolate(ch, pos, frac) ==
    (Pcm(ch, pos) * (PosOne - frac) + Pcm(ch, pos + 1) * frac) \div PosOne

\* The sample loop of MultiSamplerVoice::renderNextBlock from frame i on.
\* reads are the frame indices read through leftChannelData/rightChannelData.
RECURSIVE SmpRenderFrom(_, _, _, _, _)
SmpRenderFrom(v, i, n, frames, reads) ==
    IF i >= n THEN [v |-> v, frames |-> frames, reads |-> reads]
    ELSE LET a == AdsrNextSample(v.adsr)
             pos == v.pos \div PosOne
         IN  IF ~AdsrIsActive(a)
             THEN [v |-> ClearCurrentNote([v EXCEPT !.adsr = a]),
                   frames |-> frames, reads |-> reads]
             ELSE IF SmpAtEnd(pos, v.len)
             THEN [v |-> ClearCurrentNote([v EXCEPT !.adsr = a]),
                   frames |-> frames, reads |-> reads]
             ELSE LET frac == v.pos - pos * PosOne
                      l == SmpInterpolate(0, pos, frac)
                      r == IF v.nch > 1 THEN SmpInterpolate(1, pos, frac) ELSE l
                      gl == FxMul(FxMul(l, v.vel, VelOne), a.val, EnvOne)
                      gr == FxMul(FxMul(r, v.vel, VelOne), a.val, EnvOne)
                  IN  SmpRenderFrom(
                          [v EXCEPT !.adsr = a, !.pos = v.pos + v.ratio],
                          i + 1, n, Append(frames, <<gl, gr>>),
                          reads \cup {pos, pos + 1})

\* MultiSamplerVoice::renderNextBlock
SmpRenderNextBlock(v, n) ==
    IF ~IsVoiceActive(v) \/ v.nch = 0
    THEN [v |-> v, frames |-> <<>>, reads |-> {}]
    ELSE SmpRenderFrom(v, 0, n, <<>>, {})

-----------------------------------------------------------------------------
(* The calls juce::Synthesiser makes on one voice.                         *)

StartNote(v, note, velocity, snd, rate) ==
    IF v.kind = "osc" THEN OscStartNote(v, note, velocity, rate)
    ELSE SmpStartNote(v, note, velocity, snd, rate)

StopNote(v, allowTailOff) ==
    IF v.kind = "osc" THEN OscStopNote(v, allowTailOff)
    ELSE SmpStopNote(v, allowTailOff)

RenderNextBlock(v, n) ==
    IF v.kind = "osc" THEN OscRenderNextBlock(v, n) ELSE SmpRenderNextBlock(v, n)

\* juce::Synthesiser::startVoice: a voice that still plays is cut first.
StartVoice(v, note, velocity, snd, rate) ==
    LET w == IF IsVoiceActive(v) THEN StopNote(v, FALSE) ELSE v
    IN  StartNote([w EXCEPT !.note = note], note, velocity, snd, rate)


-----------------------------------------------------------------------------
(* Instruments.  One record type serves Instrument ("osc") and             *)
(* MultiSamplerInstrument ("smp"):                                         *)
(*   volume, pan, adsr, wave   config.volume, config.pan,                  *)
(*             config.adsrParams, config.waveform                          *)
(*   voices    the voices of the juce::Synthesiser member, in order        *)
(*   polyphony config.polyphony, what getPolyphony() returns               *)
(*   sounds    the synthesiser's MultiSamplerSounds, in order of addSound  *)
(*             (an Instrument holds one BasicSynthSound, which applies to  *)
(*             every note and is not listed)                               *)
(*   slots     the indices i with sampleSlots[i] set                       *)
(*   effects   effectsChain: records [id, type, enabled, params, mem],     *)
(*             params and mem being the processor's parameters and its     *)
(*             DSP memory (see NewEffect)                                  *)
(*   nextEffectId                                                          *)
(*   rate      the sample rate the synthesiser was prepared with           *)
(*   loads     not a member: for each sound of sounds, the slot and the    *)
(*             sample rate its load call was given, which the code does    *)
(*             not keep; the claims about slots and rates are stated with  *)
(*             it and no operator of the model reads it                    *)

\* currentSampleRate = 44100.0 of AudioEngine, in units of 22050 Hz.
EngineRate == 2
\* "int currentBlockSize = 512;"
DefaultBlock == 512

EffectTypes == {"Reverb", "Delay", "Chorus", "Distortion", "Filter", "Compressor"}

\* Instrument::createEffect returns a processor for these types only.
ImplementedEffects == {"Reverb", "Delay", "Filter"}

RECURSIVE VoicePool(_, _, _, _)
VoicePool(kind, n, p, wave) ==
    IF n <= 0 THEN <<>>
    ELSE Append(VoicePool(kind, n - 1, p, wave),
                [NewVoice(kind, p) EXCEPT !.wave = wave])

\* Instrument::Instrument: currentSampleRate and currentBlockSize hold the
\* header's defaults until prepareToPlay.
NewOscillatorInstrument(cfg) ==
    [kind |-> "osc", volume |-> cfg.volume, pan |-> cfg.pan,
     adsr |-> cfg.adsr, wave |-> cfg.waveform,
     voices |-> VoicePool("osc", cfg.polyphony, cfg.adsr, cfg.waveform),
     sounds |-> <<>>, slots |-> {}, effects |-> <<>>, nextEffectId |-> 1,
     rate |-> EngineRate, block |-> DefaultBlock, loads |-> <<>>,
     polyphony |-> cfg.polyphony]

\* MultiSamplerInstrument::MultiSamplerInstrument
NewMultiSamplerInstrument(cfg) ==
    [kind |-> "smp", volume |-> cfg.volume, pan |-> cfg.pan,
     adsr |-> cfg.adsr, wave |-> "Sine",
     voices |-> VoicePool("smp", cfg.polyphony, cfg.adsr, "Sine"),
     sounds |-> <<>>, slots |-> {}, effects |-> <<>>, nextEffectId |-> 1,
     rate |-> EngineRate, block |-> DefaultBlock, loads |-> <<>>,
     polyphony |-> cfg.polyphony]

\* Instrument::isActive / MultiSamplerInstrument::isActive
InstrIsActive(inst) == \E i \in 1..Len(inst.voices) : IsVoiceActive(inst.voices[i])

\* juce::Synthesiser::findFreeVoice with note stealing on: the first voice
\* that is not playing; with none, the voice findVoiceToSteal picks, which
\* for a pool of one voice is that voice.  0 when the pool is empty.
FindFreeVoice(voices) ==
    IF \E i \in 1..Len(voices) : ~IsVoiceActive(voices[i])
    THEN CHOOSE i \in 1..Len(voices) :
            /\ ~IsVoiceActive(voices[i])
            /\ \A j \in 1..(i - 1) : IsVoiceActive(voices[j])
    ELSE IF Len(voices) >= 1 THEN 1 ELSE 0

\* The noteOn that adds a voice to the pool when every voice is playing.
SynthNoteOnSoundGrows(voices, note, velocity, snd, rate) ==
    LET stopped == [i \in 1..Len(voices) |->
                       IF voices[i].note = note
                       THEN StopNote(voices[i], TRUE) ELSE voices[i]]
        k == FindFreeVoice(stopped)
    IN  IF k = 0 THEN stopped
        ELSE IF IsVoiceActive(stopped[k])
        THEN Append(stopped,
                    StartVoice(StopNote(stopped[k], FALSE), note, velocity, snd, rate))
        ELSE [stopped EXCEPT ![k] = StartVoice(stopped[k], note, velocity, snd, rate)]

\* juce::Synthesiser::noteOn for one sound that applies to the note: voices
\* still playing the note are released, then a voice is started.
SynthNoteOnSound(voices, note, velocity, snd, rate) ==
    LET stopped == [i \in 1..Len(voices) |->
                       IF voices[i].note = note
                       THEN StopNote(voices[i], TRUE) ELSE voices[i]]
        k == FindFreeVoice(stopped)
    IN  IF k = 0 THEN stopped
        ELSE [stopped EXCEPT ![k] = StartVoice(stopped[k], note, velocity, snd, rate)]

\* juce::Synthesiser::noteOn over the sounds from index i on.
RECURSIVE SynthNoteOnFrom(_, _, _, _, _, _)
SynthNoteOnFrom(voices, sounds, i, note, velocity, rate) ==
    IF i > Len(sounds) THEN voices
    ELSE SynthNoteOnFrom(
             IF appliesToNote(sounds[i], note)
             THEN SynthNoteOnSound(voices, note, velocity, sounds[i], rate)
             ELSE voices,
             sounds, i + 1, note, velocity, rate)

\* The BasicSynthSound of an Instrument, as a sound record.
BasicSynthSound == [len |-> 0, nch |-> 0, root |-> 60, lo |-> 0, hi |-> 127,
                    srate |-> DefaultSourceRate]

\* Instrument::noteOn / MultiSamplerInstrument::noteOn
InstrNoteOn(inst, note, velocity) ==
    [inst EXCEPT !.voices =
        IF inst.kind = "osc"
        THEN SynthNoteOnSound(inst.voices, note, velocity, BasicSynthSound, inst.rate)
        ELSE SynthNoteOnFrom(inst.voices, inst.sounds, 1, note, velocity, inst.rate)]

\* Instrument::noteOff / MultiSamplerInstrument::noteOff
InstrNoteOff(inst, note, allowTailOff) ==
    [inst EXCEPT !.voices =
        [i \in 1..Len(inst.voices) |->
            IF inst.voices[i].note = note
            THEN StopNote(inst.voices[i], allowTailOff) ELSE inst.voices[i]]]

\* Instrument::allNotesOff / MultiSamplerInstrument::allNotesOff
InstrAllNotesOff(inst) ==
    [inst EXCEPT !.voices =
        [i \in 1..Len(inst.voices) |->
            IF IsVoiceActive(inst.voices[i])
            THEN StopNote(inst.voices[i], TRUE) ELSE inst.voices[i]]]

\* Instrument::setADSR / MultiSamplerInstrument::setADSR
InstrSetADSR(inst, p) ==
    [inst EXCEPT !.adsr = p,
                 !.voices = [i \in 1..Len(inst.voices) |->
                     [inst.voices[i] EXCEPT
                         !.adsr = AdsrSetParameters(inst.voices[i].adsr, p)]]]

\* Instrument::setVolume / MultiSamplerInstrument::setVolume
InstrSetVolume(inst, volume) == [inst EXCEPT !.volume = jlimit(0, GainOne, volume)]

\* Instrument::setPan / MultiSamplerInstrument::setPan
InstrSetPan(inst, pan) == [inst EXCEPT !.pan = jlimit(0, GainOne, pan)]

\* 1.0 of an effect parameter.  Every parameter is kept at this scale, the
\* levels as well as the delay time in ms and the cutoff in Hz.
ParamOne == 20

\* The parameter ranges the processors' setters clamp to (SimpleEffects.h),
\* by effect type and field, as <<lowest, highest>>.
ParamRange(type, field) ==
    CASE type = "Delay" /\ field = "delayTime" -> <<ParamOne, 2000 * ParamOne>>
      [] type = "Delay" /\ field = "feedback" -> <<0, ParamOne - 1>>
      [] type = "Filter" /\ field = "cutoff" -> <<20 * ParamOne, 20000 * ParamOne>>
      [] type = "Filter" /\ field = "resonance" -> <<2, 10 * ParamOne>>
      [] type = "Filter" /\ field = "type" -> <<0, 2>>
      [] OTHER -> <<0, ParamOne>>

\* The processors' constructors: roomSize 0.5, damping 0.5, wetLevel 0.33,
\* dryLevel 0.4, width 1.0; 500 ms, feedback 0.4, wetLevel 0.5; 1000 Hz,
\* resonance 0.7, LowPass (filter types count 0 LowPass, 1 HighPass, 2
\* BandPass).
NewEffectParams(type) ==
    CASE type = "Reverb" ->
           [roomSize |-> 10, damping |-> 10, wetLevel |-> 7, dryLevel |-> 8,
            width |-> ParamOne]
      [] type = "Delay" ->
           [delayTime |-> 500 * ParamOne, feedback |-> 8, wetLevel |-> 10]
      [] type = "Filter" ->
           [cutoff |-> 1000 * ParamOne, resonance |-> 14, type |-> 0]

\* The delay line prepareToPlay allocates: sampleRate * 2.0 frames of
\* <<left, right>>, all zero.
NewDelayLine(rate) == [k \in 1..(rate * 2) |-> <<0, 0>>]

\* A processor's memory after prepareToPlay.  A delay has its line and
\* writePosition.  juce::Reverb and the juce::dsp::IIR filters are library
\* code: each is stood for by the last two frames it was fed.
NewEffectMem(type, rate) ==
    IF type = "Delay" THEN [line |-> NewDelayLine(rate), wp |-> 0]
    ELSE [line |-> <<<<0, 0>>, <<0, 0>>>>, wp |-> 0]

\* Effect(effectId, type, processor) after processor->prepareToPlay
NewEffect(id, type, rate) ==
    [id |-> id, type |-> type, enabled |-> TRUE,
     params |-> NewEffectParams(type), mem |-> NewEffectMem(type, rate)]

\* The prepare that resizes the delay's line and leaves writePosition where
\* it was.
EffectPrepareKeepsPosition(e, rate) ==
    IF e.type = "Delay"
    THEN [e EXCEPT !.mem.line = [k \in 1..(rate * 2) |->
                                    IF k <= Len(e.mem.line) THEN e.mem.line[k]
                                    ELSE <<0, 0>>]]
    ELSE [e EXCEPT !.mem = NewEffectMem(e.type, rate)]

\* processor->prepareToPlay on a processor that has run.  The delay resizes
\* its lines to sampleRate * 2.0 frames, which keeps what fits and pads
\* with zeros, and rewinds writePosition; juce::Reverb::setSampleRate and
\* juce::dsp::IIR::Filter::prepare clear their memory.
EffectPrepareToPlay(e, rate) ==
    IF e.type = "Delay"
    THEN [e EXCEPT !.mem = [line |-> [k \in 1..(rate * 2) |->
                                        IF k <= Len(e.mem.line) THEN e.mem.line[k]
                                        ELSE <<0, 0>>],
                            wp |-> 0]]
    ELSE [e EXCEPT !.mem = NewEffectMem(e.type, rate)]

\* The prepare that leaves the instrument as it was.
InstrPrepareKeeps(inst, rate, block) == inst

\* Instrument::prepareToPlay / MultiSamplerInstrument::prepareToPlay.
\* juce::Synthesiser::setCurrentPlaybackSampleRate, given a rate that is not
\* the one it has, stops every voice with no tail (allNotesOff(0, false)).
\* A sampler's chain is empty.
InstrPrepareToPlay(inst, rate, block) ==
    [inst EXCEPT !.rate = rate,
                 !.block = block,
                 !.voices = IF inst.rate = rate THEN inst.voices
                            ELSE [i \in 1..Len(inst.voices) |->
                                     StopNote(inst.voices[i], FALSE)],
                 !.effects = [i \in 1..Len(inst.effects) |->
                                 EffectPrepareToPlay(inst.effects[i], rate)]]

\* AudioEngine::prepareInstrumentWrapper, and the same test in the create
\* calls: "if (currentSampleRate > 0.0) prepareToPlay(...)".
prepareInstrumentWrapper(inst, rate, block) ==
    IF rate <= 0 THEN inst ELSE InstrPrepareToPlay(inst, rate, block)

\* The addEffect that takes its id before it knows it has a processor.
InstrAddEffectCountsFirst(inst, type) ==
    IF type \notin ImplementedEffects
    THEN <<[inst EXCEPT !.nextEffectId = inst.nextEffectId + 1], -1>>
    ELSE <<[inst EXCEPT !.nextEffectId = inst.nextEffectId + 1,
                        !.effects = Append(inst.effects,
                            NewEffect(inst.nextEffectId, type, inst.rate))],
           inst.nextEffectId>>

\* Instrument::addEffect: <<the instrument after the call, the value returned>>
InstrAddEffect(inst, type) ==
    IF type \notin ImplementedEffects THEN <<inst, -1>>
    ELSE <<[inst EXCEPT !.nextEffectId = inst.nextEffectId + 1,
                        !.effects = Append(inst.effects,
                            NewEffect(inst.nextEffectId, type, inst.rate))],
           inst.nextEffectId>>

\* The slot test that lets index 16 through.
isValidSlotInclusive(slot) == slot >= 0 /\ slot <= 16

\* MultiSamplerInstrument::isValidSlot
isValidSlot(slot) == slot >= 0 /\ slot < 16

\* The load that flags the slot before it looks at the buffer.
InstrLoadSampleFlagsFirst(inst, slot, len, nch, sampleRate, scfg) ==
    IF ~isValidSlot(slot) THEN <<inst, FALSE>>
    ELSE IF len = 0 THEN <<[inst EXCEPT !.slots = inst.slots \cup {slot}], FALSE>>
    ELSE <<[inst EXCEPT
               !.sounds = Append(inst.sounds,
                                 NewSound(len, nch, scfg.root, scfg.lo, scfg.hi)),
               !.slots = inst.slots \cup {slot},
               !.loads = Append(inst.loads, [slot |-> slot, rate |-> sampleRate])],
           TRUE>>

\* MultiSamplerInstrument::loadSampleFromBuffer for a buffer of len frames
\* and nch channels: <<the instrument after the call, the value returned>>.
\* The body never reads its sampleRate argument, and the sound it builds
\* gets the constructor's rate.
InstrLoadSampleFromBuffer(inst, slot, len, nch, sampleRate, scfg) ==
    IF ~isValidSlot(slot) THEN <<inst, FALSE>>
    ELSE IF len = 0 THEN <<inst, FALSE>>
    ELSE <<[inst EXCEPT
               !.sounds = Append(inst.sounds,
                                 NewSound(len, nch, scfg.root, scfg.lo, scfg.hi)),
               !.slots = inst.slots \cup {slot},
               !.loads = Append(inst.loads, [slot |-> slot, rate |-> sampleRate])],
           TRUE>>

\* Instrument::setWaveform
InstrSetWaveform(inst, wf) ==
    [inst EXCEPT !.wave = wf,
                 !.voices = [i \in 1..Len(inst.voices) |->
                                [inst.voices[i] EXCEPT !.wave = wf]]]

\* The removal that drops the last effect of the chain, whatever its id.
InstrRemoveEffectLast(inst, id) ==
    [inst EXCEPT !.effects = SubSeq(inst.effects, 1, Len(inst.effects) - 1)]

\* Instrument::removeEffect
InstrRemoveEffect(inst, id) ==
    [inst EXCEPT !.effects = SelectSeq(inst.effects, LAMBDA e : e.id # id)]

\* Instrument::setEffectEnabled
InstrSetEffectEnabled(inst, id, enabled) ==
    [inst EXCEPT !.effects =
        [i \in 1..Len(inst.effects) |->
            IF inst.effects[i].id = id
            THEN [inst.effects[i] EXCEPT !.enabled = enabled]
            ELSE inst.effects[i]]]

\* Instrument::clearEffects
InstrClearEffects(inst) == [inst EXCEPT !.effects = <<>>]

\* juce::String::toLowerCase on the parameter names tried; any other string
\* is taken to be in lower case already.
ToLowerCase(name) ==
    CASE name = "roomSize" -> "roomsize"
      [] name = "WETLEVEL" -> "wetlevel"
      [] name = "wetLevel" -> "wetlevel"
      [] name = "dryLevel" -> "drylevel"
      [] name = "delayTime" -> "delaytime"
      [] name = "FeedBack" -> "feedback"
      [] name = "Cutoff" -> "cutoff"
      [] name = "Q" -> "q"
      [] name = "TYPE" -> "type"
      [] OTHER -> name

\* The comparison that tells upper case from lower case.
equalsExactly(a, b) == a = b

\* juce::String::equalsIgnoreCase
equalsIgnoreCase(a, b) == ToLowerCase(a) = ToLowerCase(b)

\* The names setEffectParameter knows for a type, each with the field its
\* setter writes.
KnownParams(type) ==
    CASE type = "Reverb" ->
           {<<"roomSize", "roomSize">>, <<"damping", "damping">>,
            <<"wetLevel", "wetLevel">>, <<"dryLevel", "dryLevel">>,
            <<"width", "width">>}
      [] type = "Delay" ->
           {<<"delayTime", "delayTime">>, <<"feedback", "feedback">>,
            <<"wetLevel", "wetLevel">>}
      [] type = "Filter" ->
           {<<"cutoff", "cutoff">>, <<"frequency", "cutoff">>,
            <<"resonance", "resonance">>, <<"q", "resonance">>,
            <<"type", "type">>}

\* static_cast<int>(value): the whole part, towards zero.
TruncToInt(value) ==
    IF value >= 0 THEN value \div ParamOne ELSE -((-value) \div ParamOne)

\* The setter of one field: the value clamped to the field's range; the
\* filter type is set for the whole numbers 0, 1 and 2 and left alone for
\* any other.
SetParam(e, field, value) ==
    IF e.type = "Filter" /\ field = "type"
    THEN IF TruncToInt(value) \in 0..2
         THEN [e EXCEPT !.params.type = TruncToInt(value)]
         ELSE e
    ELSE LET r == ParamRange(e.type, field)
         IN  [e EXCEPT !.params[field] = jlimit(r[1], r[2], value)]

\* The branch of setEffectParameter for one effect: the first known name
\* that equals paramName, case ignored, has its setter called.
SetEffectParam(e, paramName, value) ==
    LET hit == {k \in KnownParams(e.type) : equalsIgnoreCase(paramName, k[1])}
    IN  IF hit = {} THEN e
        ELSE SetParam(e, (CHOOSE k \in hit : TRUE)[2], value)

\* Instrument::setEffectParameter: the first effect of the chain with the id
InstrSetEffectParameter(inst, id, paramName, value) ==
    LET at == {i \in 1..Len(inst.effects) : inst.effects[i].id = id}
    IN  IF at = {} THEN inst
        ELSE LET i == CHOOSE x \in at : \A y \in at : x <= y
             IN  [inst EXCEPT !.effects[i] = SetEffectParam(@, paramName, value)]

\* synth.clearSounds() as the voices see it: the bank drops its references.
\* A sound a voice still holds lives on, owned by the voice; a sound no
\* voice holds is destroyed, and the pointers a voice took from it dangle.
SoundsDropped(v) ==
    IF v.pcm # "live" THEN v
    ELSE [v EXCEPT !.pcm = IF HoldsSound(v) THEN "owned" ELSE "freed"]

\* MultiSamplerInstrument::clearAllSamples
InstrClearAllSamples(inst) ==
    [inst EXCEPT !.sounds = <<>>, !.slots = {}, !.loads = <<>>,
                 !.voices = [i \in 1..Len(inst.voices) |->
                                SoundsDropped(inst.voices[i])]]

\* An audio file as loadSample finds it: whether it exists, whether
\* formatManager.createReaderFor gives a reader, and what the reader reports
\* (lengthInSamples, numChannels, sampleRate).
AudioFile(exists, readable, len, nch, rate) ==
    [exists |-> exists, readable |-> readable, len |-> len, nch |-> nch,
     rate |-> rate]

\* MultiSamplerInstrument::loadSample: <<the instrument after the call, the
\* value returned>>
InstrLoadSample(inst, slot, file, scfg) ==
    IF ~isValidSlot(slot) THEN <<inst, FALSE>>
    ELSE IF ~file.exists THEN <<inst, FALSE>>
    ELSE IF ~file.readable THEN <<inst, FALSE>>
    ELSE InstrLoadSampleFromBuffer(inst, slot, file.len, file.nch, file.rate, scfg)

\* MultiSamplerInstrument::clearSample: the flag goes, the synthesiser's
\* sounds stay.
InstrClearSample(inst, slot) ==
    IF ~isValidSlot(slot) THEN inst
    ELSE [inst EXCEPT !.slots = inst.slots \ {slot}]

\* MultiSamplerInstrument::hasSample
hasSample(inst, slot) == IF ~isValidSlot(slot) THEN FALSE ELSE slot \in inst.slots

\* MultiSamplerInstrument::getLoadedSampleCount
getLoadedSampleCount(inst) == Cardinality(inst.slots)

-----------------------------------------------------------------------------
(* Rendering.  A block is a sequence of frames <<left, right>>.            *)

Silence(n) == [f \in 1..n |-> <<0, 0>>]

\* What a voice adds to the block: its frames, then nothing.
AddFrames(acc, frames) ==
    [f \in 1..Len(acc) |->
        IF f <= Len(frames)
        THEN <<acc[f][1] + frames[f][1], acc[f][2] + frames[f][2]>>
        ELSE acc[f]]

\* juce::Synthesiser::renderNextBlock with no MIDI: every voice renders the
\* whole block, adding to it.
RECURSIVE SynthRenderFrom(_, _, _, _)
SynthRenderFrom(voices, i, n, acc) ==
    IF i > Len(voices) THEN [voices |-> voices, buf |-> acc]
    ELSE LET r == RenderNextBlock(voices[i], n)
         IN  SynthRenderFrom([voices EXCEPT ![i] = r.v], i + 1, n,
                             AddFrames(acc, r.frames))

\* 4 cos(k pi / 8) for k = 0..15, rounded.
CosTable == <<4, 4, 3, 2, 0, -2, -3, -4, -4, -4, -3, -2, 0, 2, 3, 4>>

\* std::cos(pan * pi/2) and std::sin(pan * pi/2) with pan in units of 1/GainOne
CosPan(pan) == CosTable[(pan % 16) + 1]
SinPan(pan) == CosPan(pan - GainOne)

\* Instrument::applyVolumeAndPan / MultiSamplerInstrument::applyVolumeAndPan
\* on the two-channel mix buffer
applyVolumeAndPan(buf, volume, pan) ==
    LET leftGain == FxMul(CosPan(pan), volume, GainOne)
        rightGain == FxMul(SinPan(pan), volume, GainOne)
    IN  [f \in 1..Len(buf) |->
            <<FxMul(buf[f][1], leftGain, GainOne),
              FxMul(buf[f][2], rightGain, GainOne)>>]

\* One side of a frame through a gain at the parameters' scale.
ParamMul(x, g) == FxMul(x, g, ParamOne)

\* "int delaySamples = static_cast<int>((delayTimeMs / 1000.0f) * sampleRate);
\*  delaySamples = juce::jlimit(1, bufferSize - 1, delaySamples);"
DelaySamples(e, rate) ==
    jlimit(1, Len(e.mem.line) - 1,
           (e.params.delayTime * rate) \div (1000 * ParamOne))

\* "int readPos = writePosition - delaySamples;
\*  if (readPos < 0) readPos += bufferSize;"
DelayReadPos(e, rate) ==
    IF e.mem.wp - DelaySamples(e, rate) < 0
    THEN e.mem.wp - DelaySamples(e, rate) + Len(e.mem.line)
    ELSE e.mem.wp - DelaySamples(e, rate)

\* "float outputL = leftChannel[i] * (1.0f - wetLevel) + delayedL * wetLevel;"
DelayOutput(x, delayed, e) ==
    ParamMul(x, ParamOne - e.params.wetLevel) + ParamMul(delayed, e.params.wetLevel)

\* The write that feeds the mixed output back into the line.
DelayFeedsBackOutput(x, delayed, e) ==
    DelayOutput(x, delayed, e) + ParamMul(delayed, e.params.feedback)

\* "delayBufferL[writePosition] = leftChannel[i] + delayedL * feedback;"
DelayFeedsBack(x, delayed, e) == x + ParamMul(delayed, e.params.feedback)

\* SimpleDelayProcessor::processBlock from frame i of the block on: e is the
\* effect so far, buf the block so far.  With an empty line it returns at
\* once.
RECURSIVE DelayProcessFrom(_, _, _, _)
DelayProcessFrom(e, buf, i, rate) ==
    IF i > Len(buf) \/ Len(e.mem.line) = 0 THEN [e |-> e, buf |-> buf]
    ELSE LET bufferSize == Len(e.mem.line)
             delayed == e.mem.line[DelayReadPos(e, rate) + 1]
             out == <<DelayOutput(buf[i][1], delayed[1], e),
                      DelayOutput(buf[i][2], delayed[2], e)>>
             kept == <<DelayFeedsBack(buf[i][1], delayed[1], e),
                       DelayFeedsBack(buf[i][2], delayed[2], e)>>
         IN  DelayProcessFrom(
                 [e EXCEPT !.mem.line[e.mem.wp + 1] = kept,
                           !.mem.wp = (e.mem.wp + 1) % bufferSize],
                 [buf EXCEPT ![i] = out], i + 1, rate)

\* SimpleReverbProcessor::processBlock (juce::Reverb::processStereo) from
\* frame i on, on the stand-in: the dry frame and, scaled by the room size,
\* the frame before it.
RECURSIVE ReverbProcessFrom(_, _, _)
ReverbProcessFrom(e, buf, i) ==
    IF i > Len(buf) THEN [e |-> e, buf |-> buf]
    ELSE LET z == e.mem.line
             output(ch) ==
                 ParamMul(buf[i][ch], e.params.dryLevel)
                 + ParamMul(ParamMul(z[1][ch], e.params.roomSize), e.params.wetLevel)
             out == <<output(1), output(2)>>
         IN  ReverbProcessFrom([e EXCEPT !.mem.line = <<buf[i], z[1]>>],
                               [buf EXCEPT ![i] = out], i + 1)

\* SimpleFilterProcessor::processBlock (filterL.process, filterR.process)
\* from frame i on, on the stand-in: a low pass is the mean of the frame and
\* the one before, a high pass half their difference, a band pass half the
\* difference with the frame before that.
RECURSIVE FilterProcessFrom(_, _, _)
FilterProcessFrom(e, buf, i) ==
    IF i > Len(buf) THEN [e |-> e, buf |-> buf]
    ELSE LET z == e.mem.line
             output(ch) ==
                 CASE e.params.type = 0 -> (buf[i][ch] + z[1][ch]) \div 2
                   [] e.params.type = 1 -> (buf[i][ch] - z[1][ch]) \div 2
                   [] OTHER -> (buf[i][ch] - z[2][ch]) \div 2
             out == <<output(1), output(2)>>
         IN  FilterProcessFrom([e EXCEPT !.mem.line = <<buf[i], z[1]>>],
                               [buf EXCEPT ![i] = out], i + 1)

\* effect->processor->processBlock(buffer)
EffectProcessBlock(e, buf, rate) ==
    CASE e.type = "Delay" -> DelayProcessFrom(e, buf, 1, rate)
      [] e.type = "Reverb" -> ReverbProcessFrom(e, buf, 1)
      [] e.type = "Filter" -> FilterProcessFrom(e, buf, 1)

\* The test that lets a disabled effect process.
EffectRunsAlways(e) == TRUE

\* "if (effect->enabled && effect->processor)"
EffectRuns(e) == e.enabled

\* The chain run from its last effect to its first.
RECURSIVE ProcessEffectsLastFirst(_, _, _, _)
ProcessEffectsLastFirst(chain, buf, i, rate) ==
    IF i > Len(chain) THEN [chain |-> chain, buf |-> buf]
    ELSE LET j == Len(chain) + 1 - i
         IN  IF EffectRuns(chain[j])
             THEN LET r == EffectProcessBlock(chain[j], buf, rate)
                  IN  ProcessEffectsLastFirst([chain EXCEPT ![j] = r.e], r.buf,
                                              i + 1, rate)
             ELSE ProcessEffectsLastFirst(chain, buf, i + 1, rate)

\* Instrument::processEffectsChain from effect i of the chain on.
RECURSIVE ProcessEffectsFrom(_, _, _, _)
ProcessEffectsFrom(chain, buf, i, rate) ==
    IF i > Len(chain) THEN [chain |-> chain, buf |-> buf]
    ELSE IF EffectRuns(chain[i])
    THEN LET r == EffectProcessBlock(chain[i], buf, rate)
         IN  ProcessEffectsFrom([chain EXCEPT ![i] = r.e], r.buf, i + 1, rate)
    ELSE ProcessEffectsFrom(chain, buf, i + 1, rate)

\* Instrument::renderNextBlock / MultiSamplerInstrument::renderNextBlock on
\* the first n frames of buf: the synthesiser, whose voices add to what the
\* buffer holds, the effects chain (a sampler has none), volume and pan.
InstrRenderNextBlock(inst, buf, n) ==
    LET r == SynthRenderFrom(inst.voices, 1, n, buf)
        fx == ProcessEffectsFrom(inst.effects, r.buf, 1, inst.rate)
    IN  [inst |-> [inst EXCEPT !.voices = r.voices, !.effects = fx.chain],
         buf |-> applyVolumeAndPan(fx.buf, inst.volume, inst.pan)]

\* The clear that leaves the scratch buffer as it was.
MixBufferClearKeeps(mix) == mix

\* mixBuffer.clear()
MixBufferClear(mix) == Silence(Len(mix))

\* The loop of audioDeviceIOCallbackWithContext over the instruments still
\* to visit, in key order: clear mixBuffer, render into it, addFrom into the
\* first min(numOutputChannels, 2) output channels.  mix is what mixBuffer
\* holds when the loop gets to the instrument.  r is what the instrument's
\* renderNextBlock gives, computed once; the rest of the loop goes on from it.
RECURSIVE MixInstrumentsOn(_, _, _, _, _)
MixInstrumentsOn(insts, todo, out, mix, n) ==
    IF todo = {} THEN [insts |-> insts, out |-> out]
    ELSE LET c == CHOOSE x \in todo : \A y \in todo : x <= y
             rendered == {InstrRenderNextBlock(insts[c], MixBufferClear(mix), n)}
             rest ==
                 {MixInstrumentsOn(
                      [insts EXCEPT ![c] = r.inst], todo \ {c},
                      [ch \in DOMAIN out |->
                          [f \in 1..n |->
                              out[ch][f] + (IF ch <= 2 THEN r.buf[f][ch] ELSE 0)]],
                      r.buf, n) : r \in rendered}
         IN  CHOOSE done \in rest : TRUE

\* The loop on a mixBuffer that holds nothing but zeros.
MixInstruments(insts, todo, out, n) ==
    MixInstrumentsOn(insts, todo, out, Silence(n), n)

\* The master gain that leaves a block alone only at a gain of zero.
ApplyMasterGainSkipsZero(out, gain) ==
    IF gain = 0 THEN out
    ELSE [ch \in DOMAIN out |->
             [f \in DOMAIN out[ch] |-> FxMul(out[ch][f], gain, MasterOne)]]

\* "if (masterVolume != 1.0f) outputBuffer.applyGain(masterVolume);"
ApplyMasterGain(out, gain) ==
    IF gain = MasterOne THEN out
    ELSE [ch \in DOMAIN out |->
             [f \in DOMAIN out[ch] |-> FxMul(out[ch][f], gain, MasterOne)]]

\* The device's output channels as the callback finds them: numOut channels
\* of n frames, every sample holding fill.
DeviceBuffer(numOut, n, fill) == [ch \in 1..numOut |-> [f \in 1..n |-> fill]]

\* The clear that leaves the buffer as it was.
BufferClearKeeps(buf) == buf

\* outputBuffer.clear()
BufferClear(buf) == [ch \in DOMAIN buf |-> [f \in DOMAIN buf[ch] |-> 0]]

\* What mixBuffer holds when a callback is entered: what the callback
\* before it, or setSize, left there.  Every sample holds fill.
StaleMix(n, fill) == [f \in 1..n |-> <<fill, fill>>]

\* audioDeviceIOCallbackWithContext on the device buffer dev of n frames,
\* with mix in mixBuffer
AudioCallbackOn(insts, gain, dev, mix, n) ==
    LET r == MixInstrumentsOn(insts, DOMAIN insts, BufferClear(dev), mix, n)
    IN  [insts |-> r.insts, out |-> ApplyMasterGain(r.out, gain)]

\* The callback on a mixBuffer that holds nothing but zeros.
AudioCallback(insts, gain, dev, n) ==
    AudioCallbackOn(insts, gain, dev, Silence(n), n)

-----------------------------------------------------------------------------
(* Bounds and inputs                                                       *)

\* The longest attack, decay and release tried, in samples.
MaxEnvTime == 2
\* The most frames one render call is asked for.
MaxBlock == 2
\* The longest sample buffer loaded, in frames.
MaxLen == 3

\* Envelope parameters: no phase at all; every phase; a release only.
EnvGate == [attack |-> 0, decay |-> 0, sustain |-> EnvOne, release |-> 0]
EnvFull == [attack |-> MaxEnvTime, decay |-> MaxEnvTime,
            sustain |-> EnvOne \div 2, release |-> MaxEnvTime]
EnvTail == [attack |-> 0, decay |-> 0, sustain |-> EnvOne, release |-> MaxEnvTime]

AdsrInputs == {EnvGate, EnvFull, EnvTail}

\* Playback rates: 22050 Hz and 44100 Hz.
RateInputs == {1, 2}

\* Notes: the root note of every test sound and the octave below it, which
\* plays a sample at half speed.
NoteInputs == {48, 60}

VelocityInputs == {VelOne}

\* Buffers of 0 channels pass loadSampleFromBuffer, which rejects only
\* getNumSamples() == 0.
SoundInputs == {NewSound(len, nch, 60, 0, 127) : len \in 1..MaxLen, nch \in 0..2}

\* What a single voice is started on, as <<note, sound>>: every note above on
\* every sound, and the octave above the root, which plays at double speed,
\* on the longest stereo sound.
VoiceStartInputs ==
    (NoteInputs \X SoundInputs) \cup ({72} \X {NewSound(MaxLen, 2, 60, 0, 127)})

-----------------------------------------------------------------------------
(* The initial engine: AudioEngine's member initialisers, no call running. *)

NoInstruments == [c \in {} |-> c]

\* The record of an API call: the call, its channel and numeric argument (0
\* when it has none), the bool / int it returned (FALSE / 0 for void), and
\* whether its channel held an instrument when it was made.
Ret(op, c, arg, val, num, hit) ==
    [op |-> op, chan |-> c, arg |-> arg, val |-> val, num |-> num, hit |-> hit]

\* The record of a call that takes a name.
RetNamed(op, c, arg, name, num, hit) ==
    [op |-> op, chan |-> c, arg |-> arg, val |-> FALSE, num |-> num, hit |-> hit,
     name |-> name]

EngineInit ==
    /\ instruments = NoInstruments
    /\ masterVolume = MasterOne
    /\ outputBuffer = <<>>
    /\ outShape = [chans |-> 0, frames |-> 0]
    /\ ret = Ret("none", 0, 0, FALSE, 0, FALSE)

\* The engine's members as the header initialises them; mixBuffer is
\* default-constructed, with no channels.
DeviceInit ==
    /\ currentSampleRate = EngineRate
    /\ currentBlockSize = DefaultBlock
    /\ mixBuffer = [chans |-> 0, frames |-> 0]
    /\ device = [pc |-> "idle", rate |-> 0, block |-> 0]

\* No delay processor is under test.
NoDelay == [op |-> "none", e |-> <<>>, rate |-> 0, frames |-> 0, hist |-> <<>>]

\* No chain is under test.
NoChains ==
    [df |-> <<>>, fd |-> <<>>, fed |-> 0, inp |-> <<>>, outDF |-> <<>>,
     outFD |-> <<>>]

ThreadInit ==
    /\ chains = NoChains
    /\ dly = NoDelay
    /\ dangling = FALSE
    /\ instrumentLock = "free"
    /\ ctl = [pc |-> "idle", op |-> "none", chan |-> 0]
    /\ rt = [pc |-> "idle", cur |-> 0, todo |-> {}]
    /\ crashed = FALSE

VoiceIdle ==
    /\ voice = NewVoice("osc", EnvGate)
    /\ vrate = EngineRate
    /\ vblock = [n |-> 0, frames |-> <<>>, reads |-> {}]
    /\ vop = "init"

-----------------------------------------------------------------------------
(* VoiceSpec: one voice and the calls made on it.                          *)

VInit ==
    /\ \E k \in {"osc", "smp"}, p \in AdsrInputs : voice = NewVoice(k, p)
    /\ vrate \in RateInputs
    /\ vblock = [n |-> 0, frames |-> <<>>, reads |-> {}]
    /\ vop = "init"
    /\ EngineInit
    /\ ThreadInit
    /\ DeviceInit

\* Synthesiser::noteOn reaching this voice (Instrument::noteOn,
\* MultiSamplerInstrument::noteOn).
VStartNote ==
    /\ \E in \in VoiceStartInputs, vel \in VelocityInputs :
          voice' = StartVoice(voice, in[1], vel, in[2], vrate)
    /\ vop' = "start"
    /\ UNCHANGED <<vrate, vblock, engineVars, threadVars, dangling,
                   deviceVars, chains, dly>>

\* Synthesiser::noteOff / allNotesOff reaching this voice, which they do
\* only while it plays.
VStopNote ==
    /\ IsVoiceActive(voice)
    /\ \E tail \in BOOLEAN :
          /\ voice' = StopNote(voice, tail)
          /\ vop' = IF tail THEN "stopTail" ELSE "stopHard"
    /\ UNCHANGED <<vrate, vblock, engineVars, threadVars, dangling,
                   deviceVars, chains, dly>>

\* Synthesiser::renderNextBlock reaching this voice.
VRenderNextBlock ==
    /\ \E n \in 1..MaxBlock :
          LET r == RenderNextBlock(voice, n)
          IN  /\ voice' = r.v
              /\ vblock' = [n |-> n, frames |-> r.frames, reads |-> r.reads]
    /\ vop' = "render"
    /\ UNCHANGED <<vrate, engineVars, threadVars, dangling, deviceVars,
                       chains, dly>>

\* BaseOscillatorVoice::setADSR / MultiSamplerVoice::setADSR
VSetADSR ==
    /\ \E p \in AdsrInputs :
          voice' = [voice EXCEPT !.adsr = AdsrSetParameters(voice.adsr, p)]
    /\ vop' = "setADSR"
    /\ UNCHANGED <<vrate, vblock, engineVars, threadVars, dangling,
                   deviceVars, chains, dly>>

VNext == VStartNote \/ VStopNote \/ VRenderNextBlock \/ VSetADSR

VoiceSpec == VInit /\ [][VNext]_vars


-----------------------------------------------------------------------------
(* Voice claims (VoiceSpec)                                                *)

\* The playback position of a sample voice is at or past its last frame.
SmpPastEnd(v) == v.pos \div PosOne >= v.len - 1

-----------------------------------------------------------------------------
(* The AudioEngine API, one step per call.  A call is made by the control  *)
(* thread when it is in no other call; a call that takes instrumentLock    *)
(* waits for it.                                                           *)

\* Bounds on the counters that grow with every call.
MaxEffects == 1
MaxSounds == 1

\* Channels tried by the calls on the map: one below the range, its two
\* ends, one above.
ChannelInputs == {0, 1, 16, 17}

\* Channels tried by the calls on one instrument: below the range, in it
\* (with or without an instrument), above it.
PlayChannelInputs == {0, 1, 17}

\* Config{} / MultiSamplerConfig::Config{} as passed to the create calls
OscConfigInputs ==
    {[polyphony |-> 1, waveform |-> "Sine", adsr |-> EnvTail,
      volume |-> GainOne, pan |-> GainOne \div 2]}

SmpConfigInputs ==
    {[polyphony |-> 1, adsr |-> EnvTail, volume |-> GainOne, pan |-> GainOne \div 2]}

\* Volumes and pans below and above the range they are clamped to
LevelInputs == {-1, GainOne + 1}

\* Master volumes from below 0 to above 2
MasterInputs == {-1, 1, 3, 2 * MasterOne + 1}

\* SampleConfig{}: rootNote = 60, minNote = 0, maxNote = 127
DefaultSampleConfig == [root |-> 60, lo |-> 0, hi |-> 127]

\* What a base64 argument decodes to: nothing (convertFromBase64 fails), the
\* bytes of an audio file a reader opens, or bytes no reader opens, taken
\* as raw floats.
NoAudioFile == AudioFile(FALSE, FALSE, 0, 0, 0)
Base64Bad == [decodes |-> FALSE, file |-> NoAudioFile, floats |-> 0]
Base64File(len, nch, rate) ==
    [decodes |-> TRUE, file |-> AudioFile(TRUE, TRUE, len, nch, rate), floats |-> 0]
Base64Raw(floats) == [decodes |-> TRUE, file |-> NoAudioFile, floats |-> floats]

CanCall == ~crashed /\ ctl.pc = "idle"

\* The instrument of channel c, if there is one, has given out fewer than k
\* effect ids: the bound under which a specification makes its addEffect
\* calls.
IdsBelow(c, k) == c \in DOMAIN instruments => instruments[c].nextEffectId <= k

\* The sound bank of channel c, if it has one, holds fewer than k sounds:
\* the bound under which a specification makes its load calls.
BankBelow(c, k) == c \in DOMAIN instruments => Len(instruments[c].sounds) < k

CanLock == instrumentLock = "free"

\* The lookup that returns the first instrument of the map for a channel
\* that has none.
getInstrumentWrapperOrFirst(insts, c) ==
    IF c \in DOMAIN insts THEN c
    ELSE IF DOMAIN insts = {} THEN 0
    ELSE CHOOSE x \in DOMAIN insts : \A y \in DOMAIN insts : x <= y

\* AudioEngine::getInstrumentWrapper: the channel whose wrapper is returned,
\* 0 for nullptr
getInstrumentWrapper(insts, c) == IF c \in DOMAIN insts THEN c ELSE 0

\* AudioEngine::getOscillatorInstrument
getOscillatorInstrument(insts, c) ==
    LET w == getInstrumentWrapper(insts, c)
    IN  IF w # 0 /\ insts[w].kind = "osc" THEN w ELSE 0

\* AudioEngine::getMultiSamplerInstrument
getMultiSamplerInstrument(insts, c) ==
    LET w == getInstrumentWrapper(insts, c)
    IN  IF w # 0 /\ insts[w].kind = "smp" THEN w ELSE 0

\* AudioEngine::hasInstrument
hasInstrument(insts, c) == c \in DOMAIN insts

\* AudioEngine::getActiveChannelCount
getActiveChannelCount(insts) == Cardinality(DOMAIN insts)

\* The range test that lets channel 0 through.
ChannelOutOfRangeFromZero(c) == c < 0 \/ c > 16

\* "if (channel < 1 || channel > 16) return false;"
ChannelOutOfRange(c) == c < 1 \/ c > 16

\* instruments[channel] = std::move(wrapper) on a map that keeps the
\* instrument it already holds for the channel
MapAssignKeepsOld(insts, c, inst) ==
    [k \in DOMAIN insts \cup {c} |-> IF k \in DOMAIN insts THEN insts[k] ELSE inst]

\* instruments[channel] = std::move(wrapper)
MapAssign(insts, c, inst) ==
    [k \in DOMAIN insts \cup {c} |-> IF k = c THEN inst ELSE insts[k]]

\* instruments.erase(channel)
MapErase(insts, c) == [k \in DOMAIN insts \ {c} |-> insts[k]]

\* The clear that leaves the lowest channel in the map.
MapClearButFirst(insts) ==
    IF DOMAIN insts = {} THEN insts
    ELSE LET c == CHOOSE x \in DOMAIN insts : \A y \in DOMAIN insts : x <= y
         IN  [k \in {c} |-> insts[k]]

\* instruments.clear()
MapClear(insts) == NoInstruments

\* The callback's outputBuffer is a local of the callback: it is there when
\* the callback returns and gone at any later step.
NoOutputBuffer ==
    /\ outputBuffer' = <<>>
    /\ outShape' = [chans |-> 0, frames |-> 0]

\* What the calls below leave alone when they only touch the map and ret.
MapCallFrame == NoOutputBuffer /\ UNCHANGED <<masterVolume, voiceVars,
                                              threadVars, dangling, deviceVars,
                                              chains, dly>>

createOscillatorInstrument(c, cfg) ==
    /\ CanCall /\ CanLock
    /\ IF ChannelOutOfRange(c)
       THEN /\ instruments' = instruments
            /\ ret' = Ret("createOscillatorInstrument", c, 0, FALSE, 0,
                          hasInstrument(instruments, c))
       ELSE /\ instruments' = MapAssign(instruments, c,
                                       prepareInstrumentWrapper(
                                           NewOscillatorInstrument(cfg),
                                           currentSampleRate, currentBlockSize))
            /\ ret' = Ret("createOscillatorInstrument", c, 0, TRUE, 0,
                          hasInstrument(instruments, c))
    /\ MapCallFrame

createMultiSamplerInstrument(c, cfg) ==
    /\ CanCall /\ CanLock
    /\ IF ChannelOutOfRange(c)
       THEN /\ instruments' = instruments
            /\ ret' = Ret("createMultiSamplerInstrument", c, 0, FALSE, 0,
                          hasInstrument(instruments, c))
       ELSE /\ instruments' = MapAssign(instruments, c,
                                       prepareInstrumentWrapper(
                                           NewMultiSamplerInstrument(cfg),
                                           currentSampleRate, currentBlockSize))
            /\ ret' = Ret("createMultiSamplerInstrument", c, 0, TRUE, 0,
                          hasInstrument(instruments, c))
    /\ MapCallFrame

removeInstrument(c) ==
    /\ CanCall /\ CanLock
    /\ instruments' = MapErase(instruments, c)
    /\ ret' = Ret("removeInstrument", c, 0, FALSE, 0, hasInstrument(instruments, c))
    /\ MapCallFrame

clearAllInstruments ==
    /\ CanCall /\ CanLock
    /\ instruments' = MapClear(instruments)
    /\ ret' = Ret("clearAllInstruments", 0, 0, FALSE, 0, instruments # NoInstruments)
    /\ MapCallFrame

HasInstrument(c) ==
    /\ CanCall /\ CanLock
    /\ ret' = Ret("hasInstrument", c, 0, hasInstrument(instruments, c), 0,
                  hasInstrument(instruments, c))
    /\ UNCHANGED instruments
    /\ MapCallFrame

GetActiveChannelCount ==
    /\ CanCall /\ CanLock
    /\ ret' = Ret("getActiveChannelCount", 0, 0, FALSE,
                  getActiveChannelCount(instruments), instruments # NoInstruments)
    /\ UNCHANGED instruments
    /\ MapCallFrame

\* AudioEngine::noteOn, the lookup and the call on the instrument
noteOn(c, note, velocity) ==
    /\ CanCall /\ CanLock
    /\ LET w == getInstrumentWrapper(instruments, c)
       IN  /\ instruments' = IF w = 0 THEN instruments
                             ELSE [instruments EXCEPT
                                      ![w] = InstrNoteOn(@, note, velocity)]
           /\ ret' = Ret("noteOn", c, note, FALSE, 0, hasInstrument(instruments, c))
    /\ MapCallFrame

\* AudioEngine::noteOff
noteOff(c, note) ==
    /\ CanCall /\ CanLock
    /\ LET w == getInstrumentWrapper(instruments, c)
       IN  /\ instruments' = IF w = 0 THEN instruments
                             ELSE [instruments EXCEPT
                                      ![w] = InstrNoteOff(@, note, TRUE)]
           /\ ret' = Ret("noteOff", c, note, FALSE, 0, hasInstrument(instruments, c))
    /\ MapCallFrame

\* AudioEngine::allNotesOff
allNotesOff(c) ==
    /\ CanCall /\ CanLock
    /\ LET w == getInstrumentWrapper(instruments, c)
       IN  /\ instruments' = IF w = 0 THEN instruments
                             ELSE [instruments EXCEPT ![w] = InstrAllNotesOff(@)]
           /\ ret' = Ret("allNotesOff", c, 0, FALSE, 0, hasInstrument(instruments, c))
    /\ MapCallFrame

\* AudioEngine::allNotesOffAllChannels: under the lock, allNotesOff on every
\* instrument of the map.
allNotesOffAllChannels ==
    /\ CanCall /\ CanLock
    /\ instruments' = [c \in DOMAIN instruments |-> InstrAllNotesOff(instruments[c])]
    /\ ret' = Ret("allNotesOffAllChannels", 0, 0, FALSE, 0, instruments # NoInstruments)
    /\ MapCallFrame

\* AudioEngine::setADSR
setADSR(c, p) ==
    /\ CanCall /\ CanLock
    /\ LET w == getInstrumentWrapper(instruments, c)
       IN  /\ instruments' = IF w = 0 THEN instruments
                             ELSE [instruments EXCEPT ![w] = InstrSetADSR(@, p)]
           /\ ret' = Ret("setADSR", c, 0, FALSE, 0, hasInstrument(instruments, c))
    /\ MapCallFrame

\* AudioEngine::setVolume
setVolume(c, volume) ==
    /\ CanCall /\ CanLock
    /\ LET w == getInstrumentWrapper(instruments, c)
       IN  /\ instruments' = IF w = 0 THEN instruments
                             ELSE [instruments EXCEPT ![w] = InstrSetVolume(@, volume)]
           /\ ret' = Ret("setVolume", c, volume, FALSE, 0, hasInstrument(instruments, c))
    /\ MapCallFrame

\* AudioEngine::setPan
setPan(c, pan) ==
    /\ CanCall /\ CanLock
    /\ LET w == getInstrumentWrapper(instruments, c)
       IN  /\ instruments' = IF w = 0 THEN instruments
                             ELSE [instruments EXCEPT ![w] = InstrSetPan(@, pan)]
           /\ ret' = Ret("setPan", c, pan, FALSE, 0, hasInstrument(instruments, c))
    /\ MapCallFrame

\* The value of an EffectType enumerator.
EffectTypeValue(type) ==
    CASE type = "Reverb" -> 0
      [] type = "Delay" -> 1
      [] type = "Chorus" -> 2
      [] type = "Distortion" -> 3
      [] type = "Filter" -> 4
      [] type = "Compressor" -> 5

\* AudioEngine::addEffect.  ret.arg is the type's enumerator value, ret.num
\* the id returned.
addEffect(c, type) ==
    /\ CanCall /\ CanLock
    /\ LET w == getOscillatorInstrument(instruments, c)
       IN  IF w = 0
           THEN /\ instruments' = instruments
                /\ ret' = Ret("addEffect", c, EffectTypeValue(type), FALSE, -1,
                              hasInstrument(instruments, c))
           ELSE LET r == InstrAddEffect(instruments[w], type)
                IN  /\ instruments' = [instruments EXCEPT ![w] = r[1]]
                    /\ ret' = Ret("addEffect", c, EffectTypeValue(type), FALSE, r[2], TRUE)
    /\ MapCallFrame

\* AudioEngine::clearEffects
clearEffects(c) ==
    /\ CanCall /\ CanLock
    /\ LET w == getOscillatorInstrument(instruments, c)
       IN  /\ instruments' = IF w = 0 THEN instruments
                             ELSE [instruments EXCEPT ![w] = InstrClearEffects(@)]
           /\ ret' = Ret("clearEffects", c, 0, FALSE, 0, hasInstrument(instruments, c))
    /\ MapCallFrame

\* AudioEngine::setEffectParameter.  ret.arg is the effect id, ret.num the
\* value and ret.name the parameter name.
setEffectParameter(c, id, paramName, value) ==
    /\ CanCall /\ CanLock
    /\ LET w == getOscillatorInstrument(instruments, c)
       IN  /\ instruments' =
                 IF w = 0 THEN instruments
                 ELSE [instruments EXCEPT
                          ![w] = InstrSetEffectParameter(@, id, paramName, value)]
           /\ ret' = RetNamed("setEffectParameter", c, id, paramName, value,
                              hasInstrument(instruments, c))
    /\ MapCallFrame

\* AudioEngine::loadSample.  ret.num is the number of frames the file holds.
loadSample(c, slot, file, scfg) ==
    /\ CanCall /\ CanLock
    /\ LET w == getMultiSamplerInstrument(instruments, c)
       IN  IF w = 0
           THEN /\ instruments' = instruments
                /\ ret' = Ret("loadSampleFile", c, slot, FALSE, file.len,
                              hasInstrument(instruments, c))
           ELSE LET r == InstrLoadSample(instruments[w], slot, file, scfg)
                IN  /\ instruments' = [instruments EXCEPT ![w] = r[1]]
                    /\ ret' = Ret("loadSampleFile", c, slot, r[2], file.len, TRUE)
    /\ MapCallFrame

\* AudioEngine::loadSampleFromBase64.  data is what the base64 string
\* decodes to (see Base64Bad, Base64File, Base64Raw); sampleRate and
\* numChannels are the caller's description of raw data.  ret.num is the
\* number of frames the data hold.
loadSampleFromBase64(c, slot, data, sampleRate, numChannels, scfg) ==
    /\ CanCall /\ CanLock
    /\ LET w == getMultiSamplerInstrument(instruments, c)
           numSamples == IF numChannels > 0 THEN data.floats \div numChannels ELSE 0
           frames == IF ~data.decodes THEN 0
                     ELSE IF data.file.readable THEN data.file.len
                     ELSE numSamples
           rejected ==
               \/ w = 0
               \/ ~data.decodes
               \/ /\ ~data.file.readable
                  /\ (numChannels <= 0 \/ sampleRate <= 0 \/ numSamples <= 0)
       IN  IF rejected
           THEN /\ instruments' = instruments
                /\ ret' = Ret("loadSample", c, slot, FALSE, frames,
                              hasInstrument(instruments, c))
           ELSE LET r == IF data.file.readable
                         THEN InstrLoadSampleFromBuffer(
                                  instruments[w], slot, data.file.len, data.file.nch,
                                  data.file.rate, scfg)
                         ELSE InstrLoadSampleFromBuffer(
                                  instruments[w], slot, numSamples, numChannels,
                                  sampleRate, scfg)
                IN  /\ instruments' = [instruments EXCEPT ![w] = r[1]]
                    /\ ret' = Ret("loadSample", c, slot, r[2], frames, TRUE)
    /\ MapCallFrame

\* AudioEngine::clearSample
clearSample(c, slot) ==
    /\ CanCall /\ CanLock
    /\ LET w == getMultiSamplerInstrument(instruments, c)
       IN  /\ instruments' = IF w = 0 THEN instruments
                             ELSE [instruments EXCEPT ![w] = InstrClearSample(@, slot)]
           /\ ret' = Ret("clearSample", c, slot, FALSE, 0, hasInstrument(instruments, c))
    /\ MapCallFrame

\* MultiSamplerInstrument::hasSample asked of the sampler of channel c
HasSample(c, slot) ==
    /\ CanCall /\ CanLock
    /\ getMultiSamplerInstrument(instruments, c) # 0
    /\ ret' = Ret("hasSample", c, slot, hasSample(instruments[c], slot), 0, TRUE)
    /\ UNCHANGED instruments
    /\ MapCallFrame

\* AudioEngine::setWaveform
setWaveform(c, wf) ==
    /\ CanCall /\ CanLock
    /\ LET w == getOscillatorInstrument(instruments, c)
       IN  /\ instruments' = IF w = 0 THEN instruments
                             ELSE [instruments EXCEPT ![w] = InstrSetWaveform(@, wf)]
           /\ ret' = Ret("setWaveform", c, 0, FALSE, 0, hasInstrument(instruments, c))
    /\ MapCallFrame

\* AudioEngine::removeEffect
removeEffect(c, id) ==
    /\ CanCall /\ CanLock
    /\ LET w == getOscillatorInstrument(instruments, c)
       IN  /\ instruments' = IF w = 0 THEN instruments
                             ELSE [instruments EXCEPT ![w] = InstrRemoveEffect(@, id)]
           /\ ret' = Ret("removeEffect", c, id, FALSE, 0, hasInstrument(instruments, c))
    /\ MapCallFrame

\* AudioEngine::setEffectEnabled.  ret.arg is the effect id, ret.num the flag
\* as 1 or 0.
setEffectEnabled(c, id, enabled) ==
    /\ CanCall /\ CanLock
    /\ LET w == getOscillatorInstrument(instruments, c)
       IN  /\ instruments' = IF w = 0 THEN instruments
                             ELSE [instruments EXCEPT
                                      ![w] = InstrSetEffectEnabled(@, id, enabled)]
           /\ ret' = Ret("setEffectEnabled", c, id, FALSE, IF enabled THEN 1 ELSE 0,
                         hasInstrument(instruments, c))
    /\ MapCallFrame

\* AudioEngine::clearAllSamples
clearAllSamples(c) ==
    /\ CanCall /\ CanLock
    /\ LET w == getMultiSamplerInstrument(instruments, c)
       IN  /\ instruments' = IF w = 0 THEN instruments
                             ELSE [instruments EXCEPT ![w] = InstrClearAllSamples(@)]
           /\ ret' = Ret("clearAllSamples", c, 0, FALSE, 0, hasInstrument(instruments, c))
    /\ MapCallFrame

\* AudioEngine::setMasterVolume
setMasterVolume(volume) ==
    /\ CanCall
    /\ masterVolume' = jlimit(0, 2 * MasterOne, volume)
    /\ ret' = Ret("setMasterVolume", 0, volume, FALSE, 0, FALSE)
    /\ NoOutputBuffer
    /\ UNCHANGED <<instruments, voiceVars, threadVars, dangling,
                   deviceVars, chains, dly>>

-----------------------------------------------------------------------------
(* Spec: the control API.                                                  *)

Init == EngineInit /\ ThreadInit /\ DeviceInit /\ VoiceIdle

Next ==
    \/ \E c \in ChannelInputs, cfg \in OscConfigInputs : createOscillatorInstrument(c, cfg)
    \/ \E c \in ChannelInputs, cfg \in SmpConfigInputs : createMultiSamplerInstrument(c, cfg)
    \/ \E c \in ChannelInputs : removeInstrument(c)
    \/ clearAllInstruments
    \/ \E c \in ChannelInputs : HasInstrument(c)
    \/ GetActiveChannelCount
    \/ \E c \in PlayChannelInputs, note \in NoteInputs : noteOn(c, note, VelOne)
    \/ \E c \in PlayChannelInputs, note \in NoteInputs : noteOff(c, note)
    \/ \E c \in PlayChannelInputs : allNotesOff(c)
    \/ \E c \in PlayChannelInputs : setADSR(c, EnvGate)
    \/ \E c \in PlayChannelInputs, v \in LevelInputs : setVolume(c, v)
    \/ \E c \in PlayChannelInputs, v \in LevelInputs : setPan(c, v)
    \/ \E c \in PlayChannelInputs : IdsBelow(c, MaxEffects) /\ addEffect(c, "Reverb")
    \/ \E c \in PlayChannelInputs :
          /\ BankBelow(c, MaxSounds)
          /\ loadSampleFromBase64(c, 0, Base64Raw(MaxLen), EngineRate, 1,
                                  DefaultSampleConfig)
    \/ \E c \in PlayChannelInputs : setWaveform(c, "Square")
    \/ \E c \in PlayChannelInputs : removeEffect(c, 1)
    \/ \E c \in PlayChannelInputs : setEffectEnabled(c, 1, FALSE)
    \/ \E c \in PlayChannelInputs : clearAllSamples(c)

Spec == Init /\ [][Next]_vars

-----------------------------------------------------------------------------
(* Control API claims (Spec)                                               *)

CreateCalls == {"createOscillatorInstrument", "createMultiSamplerInstrument"}

\* C1: a create call on a channel in 1..16 returns true and hasInstrument of
\* that channel is true afterwards; on a channel outside 1..16 it returns
\* false, hasInstrument of that channel is false afterwards and the map is
\* unchanged.
C1_CreateChecksChannel ==
    [][ ret'.op \in CreateCalls =>
          IF 1 <= ret'.chan /\ ret'.chan <= 16
          THEN ret'.val /\ hasInstrument(instruments', ret'.chan)
          ELSE /\ ~ret'.val
               /\ ~hasInstrument(instruments', ret'.chan)
               /\ instruments' = instruments ]_vars

\* A create call on channel 16 has returned true while channel 1 is empty.
C1_Witness ==
    /\ ret.op \in CreateCalls /\ ret.chan = 16 /\ ret.val
    /\ hasInstrument(instruments, 16) /\ ~hasInstrument(instruments, 1)

\* C6: after clearAllInstruments the map is empty and getActiveChannelCount
\* is 0, and a second call straight after the first changes nothing.
C6_ClearAllIdempotent ==
    [][ ret'.op = "clearAllInstruments" =>
          /\ DOMAIN instruments' = {}
          /\ getActiveChannelCount(instruments') = 0
          /\ ret.op = "clearAllInstruments"
                => UNCHANGED <<instruments, masterVolume, crashed>> ]_vars

\* clearAllInstruments has run on a map that held instruments.
C6_Witness ==
    ret.op = "clearAllInstruments" /\ ret.hit /\ instruments = NoInstruments

PerChannelCalls ==
    {"noteOn", "noteOff", "allNotesOff", "setADSR", "setVolume", "setPan",
     "removeInstrument"}

\* C7: noteOn, noteOff, allNotesOff, setADSR, setVolume, setPan and
\* removeInstrument on a channel that holds no instrument, in 1..16 or not,
\* leave the map and every instrument unchanged and raise nothing.
C7_MissingChannelIsNoOp ==
    [][ (ret'.op \in PerChannelCalls /\ ret'.chan \notin DOMAIN instruments) =>
          /\ instruments' = instruments
          /\ masterVolume' = masterVolume
          /\ ~crashed' ]_vars

\* A per-channel call has run on the empty channel 1 while channel 16 holds
\* an instrument.
C7_Witness ==
    /\ ret.op \in PerChannelCalls \ {"removeInstrument"}
    /\ ret.chan = 1 /\ ~ret.hit
    /\ DOMAIN instruments = {16}

\* An instrument as its constructor leaves it: nothing sounding, no effect,
\* no sample.
IsFresh(inst) ==
    /\ ~InstrIsActive(inst)
    /\ inst.effects = <<>> /\ inst.nextEffectId = 1
    /\ inst.sounds = <<>> /\ inst.slots = {}

\* C8: the keys of the map are channels of 1..16 (one instrument per key); a
\* create call on an occupied channel leaves there an instrument with none
\* of the old one's sounding voices, effects or samples, and leaves every
\* other channel as it was.
C8_CreateReplaces ==
    [][ /\ DOMAIN instruments' \subseteq 1..16
        /\ getActiveChannelCount(instruments') <= 16
        /\ (ret'.op \in CreateCalls /\ ret'.chan \in DOMAIN instruments) =>
              /\ DOMAIN instruments' = DOMAIN instruments
              /\ IsFresh(instruments'[ret'.chan])
              /\ instruments'[ret'.chan].kind =
                    (IF ret'.op = "createOscillatorInstrument" THEN "osc" ELSE "smp")
              /\ \A d \in DOMAIN instruments \ {ret'.chan} :
                    instruments'[d] = instruments[d] ]_vars

\* A create call has replaced the instrument of channel 16 while channel 1
\* holds an instrument that sounds and has an effect.
C8_Witness ==
    /\ ret.op \in CreateCalls /\ ret.chan = 16 /\ ret.hit /\ ret.val
    /\ 1 \in DOMAIN instruments
    /\ InstrIsActive(instruments[1])
    /\ instruments[1].effects # <<>>

-----------------------------------------------------------------------------
(* MixSpec: notes, the master volume and the render callback.              *)

\* Channels that get an instrument: an oscillator instrument at one end of
\* the range, a sampler at the other.
OscChannelInputs == {1}
SmpChannelInputs == {16}
MixChannelInputs == OscChannelInputs \cup SmpChannelInputs

\* What the device leaves in its output buffer before the callback.
FillInputs == {5}

\* The output channel counts tried: mono, stereo, one more than mixBuffer has.
OutputInputs == {1, 2, 3}

\* What the scratch buffer holds in every sample before the callback: not
\* zero, as after a callback that rendered a sounding instrument last.
MixFillInputs == {3}

\* audioDeviceIOCallbackWithContext, the whole callback
audioDeviceIOCallback(numOut, n, fill) ==
    /\ CanCall /\ CanLock /\ rt.pc = "idle"
    /\ \E stale \in MixFillInputs :
          LET r == AudioCallbackOn(instruments, masterVolume,
                                  DeviceBuffer(numOut, n, fill),
                                  StaleMix(n, stale), n)
          IN  /\ instruments' = r.insts
              /\ outputBuffer' = r.out
    /\ outShape' = [chans |-> numOut, frames |-> n]
    /\ ret' = Ret("callback", 0, fill, FALSE, 0, instruments # NoInstruments)
    /\ UNCHANGED <<masterVolume, voiceVars, threadVars, dangling,
                   deviceVars, chains, dly>>

MixNext ==
    \/ \E c \in OscChannelInputs, cfg \in OscConfigInputs : createOscillatorInstrument(c, cfg)
    \/ \E c \in SmpChannelInputs, cfg \in SmpConfigInputs : createMultiSamplerInstrument(c, cfg)
    \/ clearAllInstruments
    \/ \E c \in SmpChannelInputs :
          /\ BankBelow(c, MaxSounds)
          /\ loadSampleFromBase64(c, 0, Base64Raw(2 * MaxLen), EngineRate, 2,
                                  DefaultSampleConfig)
    \/ \E c \in MixChannelInputs : noteOn(c, 60, VelOne)
    \/ \E c \in MixChannelInputs : noteOff(c, 60)
    \/ \E v \in MasterInputs : setMasterVolume(v)
    \/ \E numOut \in OutputInputs, n \in 1..MaxBlock, fill \in FillInputs :
          audioDeviceIOCallback(numOut, n, fill)

MixSpec == Init /\ [][MixNext]_vars

-----------------------------------------------------------------------------
(* Render claims (MixSpec)                                                 *)

\* C3: a callback that finds the channel map empty leaves every sample of
\* every output channel zero, whatever the buffer held and whatever the
\* master volume.
C3_EmptyMapRendersSilence ==
    [][ (ret'.op = "callback" /\ DOMAIN instruments = {}) =>
          /\ DOMAIN outputBuffer' = 1..outShape'.chans
          /\ \A ch \in DOMAIN outputBuffer' :
                /\ DOMAIN outputBuffer'[ch] = 1..outShape'.frames
                /\ \A f \in DOMAIN outputBuffer'[ch] : outputBuffer'[ch][f] = 0 ]_vars

\* A callback has run on an empty map and a buffer the device left dirty,
\* with the master volume at 2.
C3_Witness ==
    /\ ret.op = "callback" /\ ~ret.hit /\ ret.arg # 0
    /\ instruments = NoInstruments
    /\ masterVolume = 2 * MasterOne
    /\ outShape = [chans |-> 3, frames |-> MaxBlock]

\* C4: the block a callback leaves at master volume m is, sample by sample,
\* m times the block the same callback leaves at master volume 1: all zero
\* at m = 0 and exactly double at m = 2.
C4_MasterVolumeScales ==
    [][ ret'.op = "callback" =>
          LET one == AudioCallback(instruments, MasterOne,
                                   DeviceBuffer(outShape'.chans, outShape'.frames, 0),
                                   outShape'.frames).out
          IN  \A ch \in 1..outShape'.chans : \A f \in 1..outShape'.frames :
                 /\ outputBuffer'[ch][f] = (one[ch][f] * masterVolume) \div MasterOne
                 /\ masterVolume = 0 => outputBuffer'[ch][f] = 0
                 /\ masterVolume = 2 * MasterOne
                       => outputBuffer'[ch][f] = 2 * one[ch][f] ]_vars

\* A callback at master volume 2 has left a non-zero sample.
C4_Witness ==
    /\ ret.op = "callback" /\ masterVolume = 2 * MasterOne
    /\ \E ch \in DOMAIN outputBuffer : \E f \in DOMAIN outputBuffer[ch] :
          outputBuffer[ch][f] # 0

\* C5: setMasterVolume(v) stores v clamped to [0, 2]: 0 for v < 0, 2 for
\* v > 2, v otherwise.
C5_MasterVolumeClamped ==
    [][ ret'.op = "setMasterVolume" =>
          /\ ret'.arg < 0 => masterVolume' = 0
          /\ ret'.arg > 2 * MasterOne => masterVolume' = 2 * MasterOne
          /\ (0 <= ret'.arg /\ ret'.arg <= 2 * MasterOne) => masterVolume' = ret'.arg ]_vars

\* setMasterVolume has been called with a volume above 2.
C5_Witness ==
    ret.op = "setMasterVolume" /\ ret.arg > 2 * MasterOne /\ masterVolume = 2 * MasterOne

-----------------------------------------------------------------------------
(* RaceSpec: the control thread and the audio thread.  A per-channel call  *)
(* is two steps: the lookup, which takes and releases instrumentLock       *)
(* inside getInstrumentWrapper, and the call on the instrument it found,   *)
(* made with no lock held.  The callback takes the lock before its loop    *)
(* and releases it after.  Rendering one instrument is three steps: its    *)
(* renderNextBlock is entered, the synthesiser has rendered (under the     *)
(* synthesiser's own lock, which the note and sound calls take too), the   *)
(* effects and the volume and pan are done.  Sample values are MixSpec's   *)
(* business: here the callback only advances the voices.                   *)

\* The per-channel calls run, by the kind of instrument they reach.
AnyKindCalls == {"noteOn", "noteOff", "setADSR", "setVolume"}
OscOnlyCalls == {"addEffect", "removeEffect"}
SmpOnlyCalls == {"loadSample"}
ControlCalls == AnyKindCalls \cup OscOnlyCalls \cup SmpOnlyCalls

\* The calls that end in a juce::Synthesiser method that takes the
\* synthesiser's lock (noteOn, noteOff, addSound).
SynthLockedCalls == {"noteOn", "noteOff", "loadSample", "clearAllSamples"}

\* The calls that take samples away.
SampleClearCalls == {"clearAllSamples", "clearSample"}

\* The calls that resize effectsChain, which processEffectsChain iterates.
ChainCalls == {"addEffect", "removeEffect"}

\* The lookup a call starts with.
LookupFor(op, insts, c) ==
    IF op \in OscOnlyCalls THEN getOscillatorInstrument(insts, c)
    ELSE IF op \in SmpOnlyCalls \cup SampleClearCalls
    THEN getMultiSamplerInstrument(insts, c)
    ELSE getInstrumentWrapper(insts, c)

\* The call made on the instrument found, with the arguments tried.
InstrCall(op, inst) ==
    CASE op = "noteOn" -> InstrNoteOn(inst, 60, VelOne)
      [] op = "noteOff" -> InstrNoteOff(inst, 60, TRUE)
      [] op = "setADSR" -> InstrSetADSR(inst, EnvGate)
      [] op = "setVolume" -> InstrSetVolume(inst, 0)
      [] op = "addEffect" -> InstrAddEffect(inst, "Reverb")[1]
      [] op = "removeEffect" -> InstrRemoveEffect(inst, 1)
      [] op = "clearAllSamples" -> InstrClearAllSamples(inst)
      [] op = "clearSample" -> InstrClearSample(inst, 0)
      [] op = "loadSample" ->
            InstrLoadSampleFromBuffer(inst, 0, MaxLen, 1, EngineRate,
                                      DefaultSampleConfig)[1]

\* A counter the call would push past its bound.
AtBound(op, inst) ==
    \/ op = "addEffect" /\ inst.nextEffectId > MaxEffects
    \/ op = "loadSample" /\ Len(inst.sounds) >= MaxSounds

\* The callback is inside renderNextBlock of the instrument of channel c.
Rendering(c) == rt.pc \in {"synth", "post"} /\ rt.cur = c

\* The first half of a per-channel call: getInstrumentWrapper under the lock.
\* A call that finds no instrument returns here.
CtlLookup(op, c) ==
    /\ CanCall /\ CanLock
    /\ LET w == LookupFor(op, instruments, c)
       IN  IF w = 0
           THEN /\ ret' = Ret(op, c, 0, FALSE, 0, hasInstrument(instruments, c))
                /\ UNCHANGED ctl
           ELSE /\ ~AtBound(op, instruments[w])
                /\ ctl' = [pc |-> "use", op |-> op, chan |-> c]
                /\ UNCHANGED ret
    /\ NoOutputBuffer
    /\ UNCHANGED <<instruments, masterVolume, instrumentLock, rt, crashed,
                   voiceVars, dangling, deviceVars, chains, dly>>

\* The second half: the call on the instrument, with no instrumentLock held.
\* A call that takes the synthesiser's lock waits while the synthesiser
\* renders.  A call that resizes effectsChain while the callback is inside
\* the instrument's renderNextBlock races with processEffectsChain: it may
\* pass, it may take the process down.  So may a call on an instrument
\* that another thread has destroyed since the lookup: the call works on
\* freed memory and changes no instrument of the map.
CtlUse ==
    /\ ~crashed /\ ctl.pc = "use"
    /\ (~dangling /\ ctl.op \in SynthLockedCalls)
          => ~(rt.pc = "synth" /\ rt.cur = ctl.chan)
    /\ ctl' = [pc |-> "idle", op |-> "none", chan |-> 0]
    /\ ret' = Ret(ctl.op, ctl.chan, 0, FALSE, 0, TRUE)
    /\ dangling' = FALSE
    /\ IF dangling
       THEN /\ instruments' = instruments
            /\ crashed' \in BOOLEAN
       ELSE /\ instruments' = [instruments EXCEPT
                                  ![ctl.chan] = InstrCall(ctl.op, @)]
            /\ IF ctl.op \in ChainCalls /\ Rendering(ctl.chan)
               THEN crashed' \in BOOLEAN
               ELSE crashed' = FALSE
    /\ IF rt.pc = "idle" THEN NoOutputBuffer ELSE UNCHANGED <<outputBuffer,
                                                              outShape>>
    /\ UNCHANGED <<masterVolume, instrumentLock, rt, voiceVars, deviceVars,
                   chains, dly>>

\* The callback up to its loop: outputBuffer.clear(), then the lock.
RtBegin(numOut, n, fill) ==
    /\ ~crashed /\ rt.pc = "idle" /\ CanLock /\ device.pc # "closed"
    /\ instrumentLock' = "rt"
    /\ outputBuffer' = BufferClear(DeviceBuffer(numOut, n, fill))
    /\ outShape' = [chans |-> numOut, frames |-> n]
    /\ rt' = [pc |-> "loop", cur |-> 0, todo |-> DOMAIN instruments]
    /\ UNCHANGED <<instruments, masterVolume, ret, ctl, crashed, voiceVars,
                   dangling, deviceVars, chains, dly>>

\* The loop reaches the next instrument: mixBuffer.clear(), its
\* renderNextBlock is entered and the synthesiser takes its lock.
RtRenderStart ==
    /\ ~crashed /\ rt.pc = "loop" /\ rt.todo # {}
    /\ LET c == CHOOSE x \in rt.todo : \A y \in rt.todo : x <= y
       IN  rt' = [pc |-> "synth", cur |-> c, todo |-> rt.todo \ {c}]
    /\ UNCHANGED <<engineVars, instrumentLock, ctl, crashed, voiceVars,
                   dangling, deviceVars, chains, dly>>

\* synth.renderNextBlock returns: the instrument's voices have advanced.
RtSynthDone ==
    /\ ~crashed /\ rt.pc = "synth"
    /\ instruments' = [instruments EXCEPT
          ![rt.cur].voices =
              SynthRenderFrom(@, 1, outShape.frames, Silence(outShape.frames)).voices]
    /\ rt' = [rt EXCEPT !.pc = "post"]
    /\ UNCHANGED <<masterVolume, outputBuffer, outShape, ret,
                   instrumentLock, ctl,
                   crashed, voiceVars, dangling, deviceVars, chains, dly>>

\* processEffectsChain and applyVolumeAndPan are done: renderNextBlock
\* returns.
RtRenderFinish ==
    /\ ~crashed /\ rt.pc = "post"
    /\ rt' = [pc |-> "loop", cur |-> 0, todo |-> rt.todo]
    /\ UNCHANGED <<engineVars, instrumentLock, ctl, crashed, voiceVars,
                   dangling, deviceVars, chains, dly>>

\* The loop is over: the lock is released and the callback returns.
RtEnd ==
    /\ ~crashed /\ rt.pc = "loop" /\ rt.todo = {}
    /\ instrumentLock' = "free"
    /\ rt' = [pc |-> "idle", cur |-> 0, todo |-> {}]
    /\ UNCHANGED <<engineVars, ctl, crashed, voiceVars, dangling,
                   deviceVars, chains, dly>>

\* Channels tried: one that holds instruments and one that never does.
RaceChannelInputs == {1, 2}

RaceNext ==
    \/ \E cfg \in OscConfigInputs : createOscillatorInstrument(1, cfg)
    \/ \E cfg \in SmpConfigInputs : createMultiSamplerInstrument(1, cfg)
    \/ \E c \in RaceChannelInputs : removeInstrument(c)
    \/ \E op \in ControlCalls, c \in RaceChannelInputs : CtlLookup(op, c)
    \/ CtlUse
    \/ RtBegin(2, 1, 5)
    \/ RtRenderStart
    \/ RtSynthDone
    \/ RtRenderFinish
    \/ RtEnd

RaceSpec == Init /\ [][RaceNext]_vars

-----------------------------------------------------------------------------
(* Thread claims (RaceSpec)                                                *)

\* C2: no control-context mutation of an instrument (of noteOn, noteOff,
\* setADSR, setVolume, addEffect, removeEffect and loadSample, the calls
\* run here) executes while the render callback is rendering that same
\* instrument, as it would be if both sides held the instrument lock for
\* the whole of their access.
C2_NoMutationWhileRendering ==
    [][ (ctl.pc = "use" /\ ctl'.pc = "idle") => ~Rendering(ctl.chan) ]_vars


-----------------------------------------------------------------------------
(* SampleSpec: the sample slots of a sampler.  A sampler lives on channel  *)
(* 16 and an oscillator instrument on channel 1; samples are loaded from   *)
(* files and from base64 data, good and bad, into slots in and out of      *)
(* range, cleared, and played.                                             *)

\* The most sounds a bank is grown to.
MaxBank == 2

\* Slot indices: one below the range, its two ends, one above.
SlotInputs == {-1, 0, 15, 16}

\* Where the sample calls are aimed, as <<channel, slot>>: every slot index
\* of the sampler, and slot 0 of the channel that holds the oscillator
\* instrument.
SampleTargetInputs ==
    (SmpChannelInputs \X SlotInputs) \cup (OscChannelInputs \X {0})

\* Two zones that share no note: the notes below 60 around root 48, the
\* notes from 60 up around root 60.
LowZone == [root |-> 48, lo |-> 0, hi |-> 59]
HighZone == [root |-> 60, lo |-> 60, hi |-> 127]

\* Files: missing; there, but no format reads it; an audio file of no
\* frames; an audio file of MaxLen mono frames at 44100 Hz.
FileInputs ==
    {AudioFile(FALSE, FALSE, 0, 0, 0), AudioFile(TRUE, FALSE, 0, 0, 0),
     AudioFile(TRUE, TRUE, 0, 1, EngineRate), AudioFile(TRUE, TRUE, MaxLen, 1, EngineRate)}

\* Base64 loads, as the data with the sample rate and channel count given:
\* not base64; no floats; no sample rate; no channels; MaxLen mono frames at
\* 22050 Hz and at 44100 Hz.
Base64Inputs ==
    {[data |-> Base64Bad, rate |-> EngineRate, nch |-> 1],
     [data |-> Base64Raw(0), rate |-> EngineRate, nch |-> 1],
     [data |-> Base64Raw(MaxLen), rate |-> 0, nch |-> 1],
     [data |-> Base64Raw(MaxLen), rate |-> EngineRate, nch |-> 0]}
    \cup {[data |-> Base64Raw(MaxLen), rate |-> r, nch |-> 1] : r \in RateInputs}

\* Notes played on the sampler: the roots of the two zones and the octave
\* above the higher one.
SampleNoteInputs == {48, 60, 72}

SampleNext ==
    \/ \E c \in OscChannelInputs, cfg \in OscConfigInputs : createOscillatorInstrument(c, cfg)
    \/ \E c \in SmpChannelInputs, cfg \in SmpConfigInputs : createMultiSamplerInstrument(c, cfg)
    \/ \E t \in SampleTargetInputs, file \in FileInputs :
          /\ BankBelow(t[1], MaxBank)
          /\ loadSample(t[1], t[2], file, LowZone)
    \/ \E t \in SampleTargetInputs, in \in Base64Inputs :
          /\ BankBelow(t[1], MaxBank)
          /\ loadSampleFromBase64(t[1], t[2], in.data, in.rate, in.nch, HighZone)
    \/ \E t \in SampleTargetInputs : clearSample(t[1], t[2])
    \/ \E c \in SmpChannelInputs : clearAllSamples(c)
    \/ \E c \in SmpChannelInputs, slot \in SlotInputs : HasSample(c, slot)
    \/ \E c \in SmpChannelInputs, note \in SampleNoteInputs : noteOn(c, note, VelOne)
    \/ \E c \in SmpChannelInputs : allNotesOff(c)

SampleSpec == Init /\ [][SampleNext]_vars


-----------------------------------------------------------------------------
(* Sample slot claims (SampleSpec)                                         *)

\* The sampler of channel c, when the channel holds one.
IsSampler(insts, c) == c \in DOMAIN insts /\ insts[c].kind = "smp"

\* The sounds of a bank that a note-on of the note triggers.
SoundsFor(inst, note) ==
    {k \in 1..Len(inst.sounds) : appliesToNote(inst.sounds[k], note)}

\* C11: in every sampler the number of sounds a note-on can trigger (the
\* sounds of its synthesiser) equals the number of slots for which hasSample
\* is true: a slot holds at most one sound.
C11_OneSoundPerSlot ==
    \A c \in DOMAIN instruments :
        instruments[c].kind = "smp" =>
            Len(instruments[c].sounds) = getLoadedSampleCount(instruments[c])

\* C12: after clearSample(slot) hasSample(slot) is false, and a noteOn for a
\* note covered only by sounds whose slots have been cleared starts no voice.
C12_ClearSampleSilencesSlot ==
    [][ /\ (ret'.op = "clearSample" /\ IsSampler(instruments, ret'.chan))
              => ~hasSample(instruments'[ret'.chan], ret'.arg)
        /\ (ret'.op = "noteOn" /\ IsSampler(instruments, ret'.chan))
              => LET inst == instruments[ret'.chan]
                     hit == SoundsFor(inst, ret'.arg)
                 IN  (hit # {} /\ \A k \in hit : ~hasSample(inst, inst.loads[k].slot))
                        => instruments'[ret'.chan].voices = inst.voices ]_vars

SlotCalls == {"loadSampleFile", "loadSample", "hasSample", "clearSample"}

\* C13: loadSample, loadSampleFromBase64, hasSample and clearSample with a
\* slot index below 0 or above 15 return false (clearSample returns nothing)
\* and leave the slot flags and the sound bank of every instrument as they
\* were.
C13_InvalidSlotRejected ==
    [][ (ret'.op \in SlotCalls /\ (ret'.arg < 0 \/ ret'.arg >= 16)) =>
          /\ ~ret'.val
          /\ instruments' = instruments ]_vars

\* A load of a readable file that holds frames, into slot 16 of a sampler
\* whose slot 15 is loaded, has returned false.
C13_Witness ==
    /\ ret.op = "loadSampleFile" /\ ret.arg = 16 /\ ret.num > 0 /\ ~ret.val
    /\ IsSampler(instruments, ret.chan)
    /\ hasSample(instruments[ret.chan], 15)

LoadCalls == {"loadSampleFile", "loadSample"}

\* C14: a load call that returns false (no file, no reader, no frames, a raw
\* load without channels or sample rate, undecodable base64, a channel that
\* holds no sampler) leaves every instrument, its slot flags and its sound
\* bank, as it was.
C14_FailedLoadInstallsNothing ==
    [][ (ret'.op \in LoadCalls /\ ~ret'.val) => instruments' = instruments ]_vars

\* A load into the free slot 0 of a sampler whose slot 15 is loaded has
\* returned false: the data were at fault.
C14_Witness ==
    /\ ret.op \in LoadCalls /\ ret.arg = 0 /\ ~ret.val
    /\ IsSampler(instruments, ret.chan)
    /\ instruments[ret.chan].slots = {15}
    /\ instruments[ret.chan].sounds # <<>>

\* C15: a voice that a noteOn of note n starts on a sampler has its playback
\* position at 0 and its pitch ratio at 2^((n-r)/12) * S/E, for a sound of
\* the bank that covers n, with r its root note, S the sample rate its load
\* call was given and E the engine's rate.
C15_PitchRatioFromGivenRate ==
    [][ (ret'.op = "noteOn" /\ IsSampler(instruments, ret'.chan)) =>
          LET old == instruments[ret'.chan]
              new == instruments'[ret'.chan]
          IN  \A i \in 1..Len(new.voices) :
                 (/\ new.voices[i] # old.voices[i]
                  /\ new.voices[i].note = ret'.arg
                  /\ new.voices[i].adsr.state # "release")
                 => /\ new.voices[i].pos = 0
                    /\ \E k \in SoundsFor(old, ret'.arg) :
                          LET r == Pow2Semis(ret'.arg - old.sounds[k].root)
                          IN  new.voices[i].ratio * r[2] * old.rate
                                 = PosOne * r[1] * old.loads[k].rate ]_vars

-----------------------------------------------------------------------------
(* Playback speed (VoiceSpec)                                              *)

\* The envelope after j more samples.
RECURSIVE EnvAfter(_, _)
EnvAfter(a, j) == IF j = 0 THEN a ELSE AdsrNextSample(EnvAfter(a, j - 1))

\* Source frame k of the sound a voice plays, as the <<left, right>> pair a
\* voice of velocity vel puts out at envelope level env: a mono sound goes to
\* both sides.
SourceFrame(v, k, env) ==
    LET l == Pcm(0, k)
        r == IF v.nch > 1 THEN Pcm(1, k) ELSE Pcm(0, k)
    IN  <<FxMul(FxMul(l, v.vel, VelOne), env, EnvOne),
          FxMul(FxMul(r, v.vel, VelOne), env, EnvOne)>>

\* C16: a sample voice starts at position 0; while the sound's rate equals
\* the playback rate, a voice on the root note stands on a whole frame and
\* every frame it renders is the source frame under its position, times
\* velocity and envelope, after which the position is one source frame on:
\* its k-th frame is source frame k.  A voice twelve semitones above the root
\* moves on by two source frames per rendered frame.
C16_RootNotePlaysFrameByFrame ==
    [][ /\ (vop' = "start" /\ voice'.kind = "smp") => voice'.pos = 0
        /\ (/\ vop' = "render" /\ voice.kind = "smp" /\ IsVoiceActive(voice)
            /\ voice.nch > 0 /\ voice.srate = vrate
            /\ voice.note - voice.root \in {0, 12})
           => LET step == IF voice.note = voice.root THEN 1 ELSE 2
                  k0 == voice.pos \div PosOne
              IN  /\ voice.pos = k0 * PosOne
                  /\ voice'.pos = voice.pos + step * PosOne * Len(vblock'.frames)
                  /\ \A j \in 1..Len(vblock'.frames) :
                        vblock'.frames[j] =
                            SourceFrame(voice, k0 + step * (j - 1),
                                        EnvAfter(voice.adsr, j).val)
      ]_vars

\* A voice an octave above the root of a stereo sound of its own rate has
\* rendered its first frame and stands on source frame 2.
C16_Witness ==
    /\ vop = "render" /\ voice.kind = "smp"
    /\ voice.srate = vrate /\ voice.note = voice.root + 12 /\ voice.nch = 2
    /\ vblock.frames # <<>>
    /\ voice.pos = 2 * PosOne

-----------------------------------------------------------------------------
(* ChainSpec: the effects chains.  Oscillator instruments live on channels *)
(* 1 and 2 and a sampler on channel 16; effects of every type are added,   *)
(* removed, cleared and given parameters.  Nothing is played:              *)
(* the processors' memories stay as prepareToPlay left them.               *)

\* The most effect ids one instrument gives out.
MaxIds == 2

\* Config{} for the instruments that carry effects: a square wave, gated.
EffectOscConfigInputs ==
    {[polyphony |-> 1, waveform |-> "Square", adsr |-> EnvGate,
      volume |-> GainOne, pan |-> GainOne \div 2]}

\* The channel whose chain gets every call, and the channels that only get
\* addEffect: a second oscillator instrument and the sampler.
ChainChannelInputs == OscChannelInputs
AddOnlyChannelInputs == {2} \cup SmpChannelInputs

\* Effect ids: none ever given, those given, one more.
EffectIdInputs == 0..(MaxIds + 1)

\* Parameter names: in another case than setEffectParameter spells them, and
\* one no effect knows.
ParamNameInputs == {"WETLEVEL", "TYPE", "volume"}

\* Parameter values: -1.0 and 2.0, both outside every range but the filter
\* type's, which 2.0 names.
ParamValueInputs == {-ParamOne, 2 * ParamOne}

\* The types added to the chain that gets every call: two implemented, one not.
ChainTypeInputs == {"Delay", "Filter", "Chorus"}

ChainNext ==
    \/ \E c \in ChainChannelInputs \cup {2}, cfg \in EffectOscConfigInputs :
          createOscillatorInstrument(c, cfg)
    \/ \E c \in SmpChannelInputs, cfg \in SmpConfigInputs : createMultiSamplerInstrument(c, cfg)
    \/ \E c \in ChainChannelInputs, type \in ChainTypeInputs :
          IdsBelow(c, MaxIds) /\ addEffect(c, type)
    \/ \E c \in AddOnlyChannelInputs :
          IdsBelow(c, MaxIds) /\ addEffect(c, "Reverb")
    \/ \E c \in ChainChannelInputs, id \in EffectIdInputs : removeEffect(c, id)
    \/ \E c \in ChainChannelInputs : clearEffects(c)
    \/ \E c \in ChainChannelInputs, id \in EffectIdInputs, name \in ParamNameInputs,
          v \in ParamValueInputs : setEffectParameter(c, id, name, v)

ChainSpec == Init /\ [][ChainNext]_vars

-----------------------------------------------------------------------------
(* Effects chains (ChainSpec) *)

\* Channel c holds an oscillator instrument.
IsOscillator(insts, c) == c \in DOMAIN insts /\ insts[c].kind = "osc"

\* The ids of the effects the engine holds, over all instruments.
LiveEffectIds(insts) ==
    UNION {{insts[c].effects[i].id : i \in 1..Len(insts[c].effects)} :
              c \in DOMAIN insts}

\* C17: the id a successful addEffect returns is greater than the id of every
\* effect in existence, on the same instrument or on any other: ids increase
\* in call order and no two effects of the process share one.
C17_EffectIdsProcessUnique ==
    [][(ret'.op = "addEffect" /\ ret'.num # -1) =>
          \A id \in LiveEffectIds(instruments) : id < ret'.num]_vars

\* The position of the first effect of a chain with the id, 0 if none has it.
FirstWithId(chain, id) ==
    LET at == {i \in 1..Len(chain) : chain[i].id = id}
    IN  IF at = {} THEN 0 ELSE CHOOSE x \in at : \A y \in at : x <= y

\* The field a parameter name, as the calls spell it, stands for in an effect
\* of the type; "none" when the type has no parameter of that name.
FieldNamed(type, name) ==
    CASE name = "WETLEVEL" /\ type \in {"Reverb", "Delay"} -> "wetLevel"
      [] name = "TYPE" /\ type = "Filter" -> "type"
      [] OTHER -> "none"

\* C19: setEffectParameter finds the parameter whatever the case of the name
\* ("WETLEVEL" sets wetLevel, "TYPE" the filter type) and calls its setter on
\* the addressed effect alone; a name the effect's type does not know, or an
\* id that is not in the chain, or a channel without an oscillator instrument,
\* leaves every instrument as it was.
C19_ParameterNameIgnoresCase ==
    [][ret'.op = "setEffectParameter" =>
          LET c == ret'.chan
              i == IF IsOscillator(instruments, c)
                   THEN FirstWithId(instruments[c].effects, ret'.arg) ELSE 0
              field == IF i = 0 THEN "none"
                       ELSE FieldNamed(instruments[c].effects[i].type, ret'.name)
          IN  IF field = "none"
              THEN instruments' = instruments
              ELSE instruments' =
                      [instruments EXCEPT
                          ![c].effects[i] = SetParam(@, field, ret'.num)]]_vars

\* C19 witness: a call with a name its effect does not know has addressed the
\* second effect of a chain in which an upper-case name has set a wet level
\* to 1.0 before.
C19_Witness ==
    /\ ret.op = "setEffectParameter" /\ ret.name = "volume"
    /\ IsOscillator(instruments, ret.chan)
    /\ LET chain == instruments[ret.chan].effects
       IN  /\ Len(chain) = 2
           /\ chain[2].id = ret.arg
           /\ chain[1].type = "Delay" /\ chain[1].params.wetLevel = ParamOne

\* C20: addEffect returns -1 exactly when the channel has no oscillator
\* instrument or the type is Chorus, Distortion or Compressor, and then no
\* instrument changes (no effect added, no id used up); otherwise it returns
\* the instrument's next id and the chain has one more effect at its end, of
\* the type asked for, with that id, enabled.
C20_AddEffectResult ==
    [][ret'.op = "addEffect" =>
          LET c == ret'.chan
              implemented == ret'.arg \in {0, 1, 4}
          IN  /\ (ret'.num = -1) <=> (~IsOscillator(instruments, c) \/ ~implemented)
              /\ ret'.num = -1 => instruments' = instruments
              /\ ret'.num # -1 =>
                    /\ ret'.num = instruments[c].nextEffectId
                    /\ DOMAIN instruments' = DOMAIN instruments
                    /\ \A d \in DOMAIN instruments \ {c} : instruments'[d] = instruments[d]
                    /\ LET old == instruments[c].effects
                           new == instruments'[c].effects
                       IN  /\ Len(new) = Len(old) + 1
                           /\ SubSeq(new, 1, Len(old)) = old
                           /\ new[Len(new)].id = ret'.num
                           /\ new[Len(new)].enabled
                           /\ EffectTypeValue(new[Len(new)].type) = ret'.arg
                    /\ instruments'[c].voices = instruments[c].voices]_vars

\* C20 witness: Chorus has been refused on an oscillator instrument that
\* holds an effect and whose next id is 2, and the sampler channel and the
\* second oscillator instrument exist.
C20_Witness ==
    /\ ret.op = "addEffect" /\ ret.num = -1 /\ ret.arg = EffectTypeValue("Chorus")
    /\ IsOscillator(instruments, ret.chan)
    /\ Len(instruments[ret.chan].effects) = 1
    /\ instruments[ret.chan].nextEffectId = 2
    /\ \E d \in DOMAIN instruments : instruments[d].kind = "smp"

-----------------------------------------------------------------------------
(* EffectSpec: one oscillator instrument on channel 1 plays a note through *)
(* its effects chain while effects are added and switched on and off, and  *)
(* the device asks for blocks.                                             *)

\* The types of the chain: the delay, and the filter for a processor of the
\* library.
EffectTypeInputs == {"Delay", "Filter"}

\* The ids of the effects that are switched: the chain comes to hold two.
ToggleIdInputs == {1, 2}

\* Every enabled delay of channel c can take n more frames before its write
\* position wraps: the bound under which EffectSpec asks for blocks.
DelayLinesTake(c, n) ==
    c \in DOMAIN instruments =>
        \A i \in 1..Len(instruments[c].effects) :
            LET e == instruments[c].effects[i]
            IN  (e.type = "Delay" /\ e.enabled) => e.mem.wp + n < Len(e.mem.line)

EffectNext ==
    \/ \E c \in OscChannelInputs, cfg \in EffectOscConfigInputs :
          createOscillatorInstrument(c, cfg)
    \/ \E c \in OscChannelInputs, type \in EffectTypeInputs :
          IdsBelow(c, Cardinality(ToggleIdInputs)) /\ addEffect(c, type)
    \/ \E c \in OscChannelInputs, id \in ToggleIdInputs, flag \in BOOLEAN :
          setEffectEnabled(c, id, flag)
    \/ \E c \in OscChannelInputs : noteOn(c, 60, VelOne)
    \/ \E c \in OscChannelInputs : noteOff(c, 60)
    \/ \E c \in OscChannelInputs, n \in {MaxBlock} :
          DelayLinesTake(c, n) /\ audioDeviceIOCallback(2, n, 0)

EffectSpec == Init /\ [][EffectNext]_vars

-----------------------------------------------------------------------------
(* Switching effects (EffectSpec) *)

\* The chain without its disabled effects.
EnabledOnly(chain) == SelectSeq(chain, LAMBDA e : e.enabled)

\* C18: setEffectEnabled writes the flag of the first effect with the id and
\* nothing else (parameters, processor memory, order, other effects, voices
\* stay as they were), and the block the device asks for next is the block of
\* a chain that holds the enabled effects only, which leaves every disabled
\* effect as it was and runs every enabled one on the memory it had.
C18_ToggleOnlyFlag ==
    [][/\ ret'.op = "setEffectEnabled" /\ IsOscillator(instruments, ret'.chan) =>
            LET c == ret'.chan
                i == FirstWithId(instruments[c].effects, ret'.arg)
            IN  instruments' =
                   IF i = 0 THEN instruments
                   ELSE [instruments EXCEPT ![c].effects[i].enabled = (ret'.num = 1)]
       /\ ret'.op = "callback" =>
            LET stripped == [c \in DOMAIN instruments |->
                               [instruments[c] EXCEPT !.effects = EnabledOnly(@)]]
                r == AudioCallback(stripped, masterVolume,
                                   DeviceBuffer(outShape'.chans, outShape'.frames,
                                                ret'.arg),
                                   outShape'.frames)
            IN  /\ outputBuffer' = r.out
                /\ \A c \in DOMAIN instruments :
                      /\ EnabledOnly(instruments'[c].effects) = r.insts[c].effects
                      /\ Len(instruments'[c].effects) = Len(instruments[c].effects)
                      /\ \A i \in 1..Len(instruments[c].effects) :
                            ~instruments[c].effects[i].enabled =>
                               instruments'[c].effects[i] = instruments[c].effects[i]]_vars

\* C18 witness: a block that sounds has been rendered past a disabled delay
\* whose line holds what it was fed while enabled, and through an enabled
\* filter behind it.
C18_Witness ==
    /\ ret.op = "callback"
    /\ IsOscillator(instruments, 1)
    /\ LET chain == instruments[1].effects
       IN  /\ Len(chain) = 2
           /\ chain[1].type = "Delay" /\ ~chain[1].enabled
           /\ chain[1].mem.wp > 0
           /\ \E k \in 1..Len(chain[1].mem.line) : chain[1].mem.line[k] # <<0, 0>>
           /\ chain[2].type = "Filter" /\ chain[2].enabled
    /\ \E ch \in DOMAIN outputBuffer :
          \E f \in DOMAIN outputBuffer[ch] : outputBuffer[ch][f] # 0

-----------------------------------------------------------------------------
(* The destination buffer (MixSpec) *)

\* C21: a callback leaves a block of the destination's shape in which every
\* sample is written: the block does not depend on what the device had left
\* in the buffer (it is the block the same callback leaves in a buffer of
\* zeros), and the channels past the two that mixBuffer has are zero.
C21_CallbackWritesEverySample ==
    [][ret'.op = "callback" =>
          LET chans == outShape'.chans
              frames == outShape'.frames
              zeros == [ch \in 1..chans |-> [f \in 1..frames |-> 0]]
              clean == AudioCallback(instruments, masterVolume, zeros, frames).out
          IN  /\ DOMAIN outputBuffer' = 1..chans
              /\ \A ch \in 1..chans :
                    /\ DOMAIN outputBuffer'[ch] = 1..frames
                    /\ \A f \in 1..frames :
                          /\ outputBuffer'[ch][f] = clean[ch][f]
                          /\ ch > 2 => outputBuffer'[ch][f] = 0]_vars

\* C21 witness: a callback on three output channels the device had left
\* dirty has put a sounding instrument's block into the first and zeros into
\* the third.
C21_Witness ==
    /\ ret.op = "callback" /\ ret.hit /\ ret.arg # 0
    /\ outShape = [chans |-> 3, frames |-> MaxBlock]
    /\ \E f \in 1..MaxBlock : outputBuffer[1][f] # 0
    /\ \A f \in 1..MaxBlock : outputBuffer[3][f] = 0

\* The sum, over the channels of todo taken from the highest down, of
\* sample f of channel ch of the block each instrument renders alone, into
\* a buffer of zeros.
RECURSIVE SumAlone(_, _, _, _, _)
SumAlone(insts, todo, n, ch, f) ==
    IF todo = {} THEN 0
    ELSE LET c == CHOOSE x \in todo : \A y \in todo : x >= y
         IN  InstrRenderNextBlock(insts[c], Silence(n), n).buf[f][ch]
             + SumAlone(insts, todo \ {c}, n, ch, f)

\* C30: a callback leaves in each of the first two output channels, before
\* the master gain, the sum of the blocks the instruments of the map render
\* each alone into a zeroed buffer, and nothing in a further channel; each
\* instrument is left as one render of the block leaves it.
C30_OutputIsSumOfBlocks ==
    [][ret'.op = "callback" =>
          LET n == outShape'.frames
              sum == [ch \in 1..outShape'.chans |->
                        [f \in 1..n |->
                            IF ch <= 2
                            THEN SumAlone(instruments, DOMAIN instruments, n, ch, f)
                            ELSE 0]]
          IN  /\ outputBuffer' = ApplyMasterGain(sum, masterVolume)
              /\ DOMAIN instruments' = DOMAIN instruments
              /\ \A c \in DOMAIN instruments :
                    instruments'[c] =
                        InstrRenderNextBlock(instruments[c], Silence(n), n).inst]_vars

\* A callback has rendered two instruments into two output channels, both
\* still sound after it, and the output is not silent.
C30_Witness ==
    /\ ret.op = "callback" /\ ret.hit
    /\ outShape = [chans |-> 2, frames |-> MaxBlock]
    /\ DOMAIN instruments = MixChannelInputs
    /\ \A c \in MixChannelInputs : InstrIsActive(instruments[c])
    /\ \E f \in 1..MaxBlock : outputBuffer[1][f] # 0

-----------------------------------------------------------------------------
(* LevelSpec: instruments of both kinds are created from configuration     *)
(* records of every volume and pan, and setVolume and setPan are called    *)
(* with every value.                                                       *)

\* Volumes and pans: below the range, its ends, its middle, above it.
AnyLevelInputs == {-1, 0, GainOne \div 2, GainOne, GainOne + 1}

\* Config{} and MultiSamplerConfig::Config{} with every volume and pan.
OscLevelConfigInputs ==
    {[polyphony |-> 1, waveform |-> "Sine", adsr |-> EnvGate, volume |-> v, pan |-> p] :
        v \in AnyLevelInputs, p \in AnyLevelInputs}
SmpLevelConfigInputs ==
    {[polyphony |-> 1, adsr |-> EnvGate, volume |-> v, pan |-> p] :
        v \in AnyLevelInputs, p \in AnyLevelInputs}

LevelNext ==
    \/ \E c \in OscChannelInputs, cfg \in OscLevelConfigInputs :
          createOscillatorInstrument(c, cfg)
    \/ \E c \in SmpChannelInputs, cfg \in SmpLevelConfigInputs :
          createMultiSamplerInstrument(c, cfg)
    \/ \E c \in MixChannelInputs, v \in AnyLevelInputs : setVolume(c, v)
    \/ \E c \in MixChannelInputs, p \in AnyLevelInputs : setPan(c, p)

LevelSpec == Init /\ [][LevelNext]_vars

\* C22: every instrument of the channel map holds a volume and a pan in
\* [0, 1].
C22_LevelsInRange ==
    \A c \in DOMAIN instruments :
        /\ 0 <= instruments[c].volume /\ instruments[c].volume <= GainOne
        /\ 0 <= instruments[c].pan /\ instruments[c].pan <= GainOne

-----------------------------------------------------------------------------
(* Hard stops and finished voices (VoiceSpec) *)

\* C28: right after stopNote with allowTailOff = false the envelope of the
\* voice, of either kind, is idle at level 0.
C28_HardStopIdlesEnvelope ==
    [][vop' = "stopHard" =>
          /\ ~AdsrIsActive(voice'.adsr)
          /\ voice'.adsr.val = 0]_vars

\* C29: a voice is finished (it has no current note) exactly when its
\* envelope is idle: a finished voice has an idle envelope, and a voice whose
\* envelope is idle when a block has been rendered is finished.
C29_FinishedIffEnvelopeIdle ==
    /\ ~IsVoiceActive(voice) => ~AdsrIsActive(voice.adsr)
    /\ (vop = "render" /\ ~AdsrIsActive(voice.adsr)) => ~IsVoiceActive(voice)

-----------------------------------------------------------------------------
(* NotesSpec: an oscillator instrument and a sampler with a sample, each   *)
(* with two voices and with or without a release phase, play notes, are    *)
(* told to stop all notes, and are rendered.                               *)

\* Config{} and MultiSamplerConfig::Config{} with two voices, gated or with
\* a release of MaxEnvTime samples.
OscNotesConfigInputs ==
    {[polyphony |-> 2, waveform |-> "Square", adsr |-> p,
      volume |-> GainOne, pan |-> GainOne \div 2] : p \in {EnvGate, EnvTail}}
SmpNotesConfigInputs ==
    {[polyphony |-> 2, adsr |-> p, volume |-> GainOne, pan |-> GainOne \div 2] :
        p \in {EnvGate, EnvTail}}

\* The note played: the root of the sample.  Played again while it sounds,
\* it puts the voice that plays it into its release and starts the other.
PlayedNoteInputs == {60}

\* One block for the device.
RenderBlock == audioDeviceIOCallback(2, MaxBlock, 0)

NotesNext ==
    \/ \E c \in OscChannelInputs, cfg \in OscNotesConfigInputs :
          createOscillatorInstrument(c, cfg)
    \/ \E c \in SmpChannelInputs, cfg \in SmpNotesConfigInputs :
          createMultiSamplerInstrument(c, cfg)
    \/ \E c \in SmpChannelInputs :
          /\ BankBelow(c, MaxSounds)
          /\ loadSampleFromBase64(c, 0, Base64Raw(MaxLen), EngineRate, 1,
                                  DefaultSampleConfig)
    \/ \E c \in MixChannelInputs, note \in PlayedNoteInputs : noteOn(c, note, VelOne)
    \/ \E c \in MixChannelInputs : allNotesOff(c)
    \/ allNotesOffAllChannels
    \/ RenderBlock

NotesSpec == Init /\ [][NotesNext]_vars

\* The channels a stop-all call addresses.
Addressed(r) ==
    IF r.op = "allNotesOff" THEN {r.chan} \cap DOMAIN instruments
    ELSE IF r.op = "allNotesOffAllChannels" THEN DOMAIN instruments
    ELSE {}

\* C23, first half: when allNotesOff or allNotesOffAllChannels returns, every
\* voice of an addressed instrument that was active is in its release phase
\* or inactive.
C23_AllNotesOffReleasesVoices ==
    [][\A c \in Addressed(ret') :
          \A i \in 1..Len(instruments[c].voices) :
             IsVoiceActive(instruments[c].voices[i]) =>
                \/ instruments'[c].voices[i].adsr.state = "release"
                \/ ~IsVoiceActive(instruments'[c].voices[i])]_vars

\* What keeps a stopped instrument from sounding for ever: a block rendered
\* on a voice that is in its release phase, or active with an idle envelope,
\* ends the voice or lowers its level.
ReleaseRunsDown ==
    [][ret'.op = "callback" =>
          \A c \in DOMAIN instruments :
             \A i \in 1..Len(instruments[c].voices) :
                LET v == instruments[c].voices[i]
                    w == instruments'[c].voices[i]
                IN  (IsVoiceActive(v) /\ v.adsr.state \in {"release", "idle"}) =>
                       \/ ~IsVoiceActive(w)
                       \/ w.adsr.state = "release" /\ w.adsr.val < v.adsr.val]_vars

-----------------------------------------------------------------------------
(* StartSpec: the device starts while instruments are created.            *)
(* audioDeviceAboutToStart runs on the thread that starts the device.  It  *)
(* writes currentSampleRate, then currentBlockSize and the size of         *)
(* mixBuffer, with no lock held, and only then takes instrumentLock for    *)
(* its loop over the map.  A create call holds instrumentLock from before  *)
(* it builds the instrument until it has stored it, and reads the two      *)
(* cached values in between, first the rate and then the block size: each  *)
(* read may fall before or after the write of the value it reads.          *)

\* What the device reports when it starts: rate (in units of 22050 Hz) and
\* buffer size.
DeviceInputs == {[rate |-> 1, block |-> 256], [rate |-> 4, block |-> 1024]}

\* "currentSampleRate = device->getCurrentSampleRate();"
DevStartRate(d) ==
    /\ ~crashed /\ device.pc = "idle"
    /\ currentSampleRate' = d.rate
    /\ device' = [pc |-> "rate", rate |-> d.rate, block |-> d.block]
    /\ NoOutputBuffer
    /\ UNCHANGED <<instruments, masterVolume, ret, currentBlockSize, mixBuffer,
                   voiceVars, threadVars, dangling, chains, dly>>

\* "currentBlockSize = device->getCurrentBufferSizeSamples();
\*  mixBuffer.setSize(2, currentBlockSize);"
DevStartBlock ==
    /\ ~crashed /\ device.pc = "rate"
    /\ currentBlockSize' = device.block
    /\ mixBuffer' = [chans |-> 2, frames |-> device.block]
    /\ device' = [device EXCEPT !.pc = "block"]
    /\ NoOutputBuffer
    /\ UNCHANGED <<instruments, masterVolume, ret, currentSampleRate,
                   voiceVars, threadVars, dangling, chains, dly>>

\* The rest of audioDeviceAboutToStart: the lock, prepareInstrumentWrapper
\* for every instrument of the map, the lock released.  Its reads of the
\* cached values come after its own writes.
DevStartPrepare ==
    /\ ~crashed /\ device.pc = "block" /\ CanLock
    /\ instruments' = [c \in DOMAIN instruments |->
                          prepareInstrumentWrapper(instruments[c],
                                                   currentSampleRate,
                                                   currentBlockSize)]
    /\ device' = [device EXCEPT !.pc = "idle"]
    /\ ret' = Ret("audioDeviceAboutToStart", 0, 0, FALSE, 0,
                  instruments # NoInstruments)
    /\ NoOutputBuffer
    /\ UNCHANGED <<masterVolume, currentSampleRate, currentBlockSize,
                   mixBuffer,
                   voiceVars, threadVars, dangling, chains, dly>>

\* A create call up to its read of currentSampleRate: the range check, the
\* lock, the constructor, "if (currentSampleRate > 0.0)".
CreateBegin(op, c, cfg) ==
    /\ CanCall /\ CanLock /\ ~ChannelOutOfRange(c)
    /\ instrumentLock' = "ctl"
    /\ ctl' = [pc |-> "create", op |-> op, chan |-> c, cfg |-> cfg,
               rate |-> currentSampleRate]
    /\ NoOutputBuffer
    /\ UNCHANGED <<instruments, masterVolume, ret, rt, crashed, voiceVars,
                   dangling, deviceVars, chains, dly>>

\* The rest of it: the read of currentBlockSize, prepareToPlay, the store
\* into the map, the lock released.
CreateEnd ==
    /\ ~crashed /\ ctl.pc = "create"
    /\ LET new == IF ctl.op = "createOscillatorInstrument"
                  THEN NewOscillatorInstrument(ctl.cfg)
                  ELSE NewMultiSamplerInstrument(ctl.cfg)
       IN  instruments' = MapAssign(instruments, ctl.chan,
                              prepareInstrumentWrapper(new, ctl.rate,
                                                       currentBlockSize))
    /\ ret' = Ret(ctl.op, ctl.chan, 0, TRUE, 0, hasInstrument(instruments, ctl.chan))
    /\ instrumentLock' = "free"
    /\ ctl' = [pc |-> "idle", op |-> "none", chan |-> 0]
    /\ NoOutputBuffer
    /\ UNCHANGED <<masterVolume, rt, crashed, voiceVars, dangling,
                   deviceVars, chains, dly>>

StartNext ==
    \/ \E c \in OscChannelInputs, cfg \in OscNotesConfigInputs :
          CreateBegin("createOscillatorInstrument", c, cfg)
    \/ \E c \in SmpChannelInputs, cfg \in SmpNotesConfigInputs :
          CreateBegin("createMultiSamplerInstrument", c, cfg)
    \/ CreateEnd
    \/ \E c \in MixChannelInputs : removeInstrument(c)
    \/ \E c \in MixChannelInputs : noteOn(c, 60, VelOne)
    \/ \E d \in DeviceInputs : DevStartRate(d)
    \/ DevStartBlock
    \/ DevStartPrepare

StartSpec == Init /\ [][StartNext]_vars

\* The instrument was prepared with the values the engine has cached.
PreparedWithCached(inst) ==
    /\ inst.rate = currentSampleRate
    /\ inst.block = currentBlockSize

\* C24: when a device start completes, the cached sample rate and block
\* size are the device's and every instrument of the map has been prepared
\* with them, whatever create calls ran between its steps; and at every
\* moment at which no device start is under way, every instrument of the
\* map, those created since the last start included, is prepared with the
\* cached values.
C24_DeviceStartPreparesAll ==
    /\ (ret.op = "audioDeviceAboutToStart" /\ device.pc = "idle") =>
           /\ currentSampleRate = device.rate
           /\ currentBlockSize = device.block
    /\ device.pc = "idle" =>
           \A c \in DOMAIN instruments : PreparedWithCached(instruments[c])

\* A device start at 88200 Hz has just completed on a map that holds both
\* instruments, and the oscillator instrument still sounds: it was created,
\* or last prepared, when the cached rate was already that of the device.
C24_Witness ==
    /\ device.pc = "idle" /\ device.rate = 4
    /\ ret.op = "audioDeviceAboutToStart" /\ ret.hit
    /\ DOMAIN instruments = MixChannelInputs
    /\ InstrIsActive(instruments[1])
    /\ \A c \in MixChannelInputs : instruments[c].block = 1024

-----------------------------------------------------------------------------
(* LifeSpec: the lifetime of instruments and sounds.  RaceSpec's control   *)
(* thread and audio thread, and a second control thread that removes and   *)
(* replaces instruments: removeInstrument, clearAllInstruments, shutdown   *)
(* and the create calls take instrumentLock, which the first thread does   *)
(* not hold between its lookup and its call on the instrument.             *)

\* The per-channel calls of the first control thread.
LifeCalls == {"noteOn", "setVolume", "addEffect", "loadSample",
              "clearAllSamples", "clearSample"}

\* The calls of the second control thread.
OtherCalls == {"removeInstrument", "clearAllInstruments", "shutdown",
               "createOscillatorInstrument", "createMultiSamplerInstrument"}

\* The channels whose instrument the call destroys.
Destroys(op, c, insts) ==
    IF op \in {"clearAllInstruments", "shutdown"} THEN DOMAIN insts
    ELSE {c} \cap DOMAIN insts

\* A call of the second control thread on channel c, whole: each holds
\* instrumentLock while it changes the map.  shutdown first takes the
\* callback off the device, which waits for a callback under way, and
\* closes the device.
OtherThread(op, c, ocfg, scfg) ==
    /\ ~crashed /\ CanLock
    /\ op = "shutdown" => rt.pc = "idle"
    /\ instruments' =
          CASE op = "removeInstrument" -> MapErase(instruments, c)
            [] op \in {"clearAllInstruments", "shutdown"} -> MapClear(instruments)
            [] op = "createOscillatorInstrument" ->
                  MapAssign(instruments, c,
                            prepareInstrumentWrapper(NewOscillatorInstrument(ocfg),
                                                     currentSampleRate,
                                                     currentBlockSize))
            [] op = "createMultiSamplerInstrument" ->
                  MapAssign(instruments, c,
                            prepareInstrumentWrapper(NewMultiSamplerInstrument(scfg),
                                                     currentSampleRate,
                                                     currentBlockSize))
    /\ dangling' = (dangling \/ (ctl.pc = "use"
                                  /\ ctl.chan \in Destroys(op, c, instruments)))
    /\ device' = IF op = "shutdown" THEN [device EXCEPT !.pc = "closed"] ELSE device
    /\ ret' = Ret(op, c, 0, op \in {"createOscillatorInstrument",
                                     "createMultiSamplerInstrument"},
                  0, hasInstrument(instruments, c))
    /\ IF rt.pc = "idle" THEN NoOutputBuffer ELSE UNCHANGED <<outputBuffer,
                                                              outShape>>
    /\ UNCHANGED <<masterVolume, instrumentLock, ctl, rt, crashed, voiceVars,
                   currentSampleRate, currentBlockSize, mixBuffer,
                   chains, dly>>

LifeNext ==
    \/ \E cfg \in SmpConfigInputs : createMultiSamplerInstrument(1, cfg)
    \/ \E op \in LifeCalls : CtlLookup(op, 1)
    \/ CtlUse
    \/ \E op \in OtherCalls, ocfg \in OscConfigInputs, scfg \in SmpConfigInputs :
          OtherThread(op, 1, ocfg, scfg)
    \/ RtBegin(2, 1, 5)
    \/ RtRenderStart
    \/ RtSynthDone
    \/ RtRenderFinish
    \/ RtEnd

LifeSpec == Init /\ [][LifeNext]_vars

\* C26: the call a control operation makes on the instrument it looked up
\* is made on an instrument the map still owns.
C26_UsesLiveInstrument ==
    [][(ctl.pc = "use" /\ ctl'.pc = "idle") => ~dangling]_vars

\* Every pointer into PCM data that an active sample voice holds is to a
\* sound that exists.
VoicesReadLivePcm(insts) ==
    \A c \in DOMAIN insts :
       \A i \in 1..Len(insts[c].voices) :
          LET v == insts[c].voices[i]
          IN  (v.kind = "smp" /\ IsVoiceActive(v)) => v.pcm # "freed"

\* C27: at every moment, whatever clearAllSamples, clearSample, loads and
\* removals of the instrument have run and wherever the callback is, an
\* active sample voice points into a sound that exists.
C27_ActiveVoiceReadsLiveSound == VoicesReadLivePcm(instruments)

\* The callback is rendering a sampler whose bank has been cleared while a
\* voice plays: the voice reads the sound it alone still refers to.
C27_Witness ==
    /\ rt.pc = "synth"
    /\ rt.cur \in DOMAIN instruments
    /\ instruments[rt.cur].sounds = <<>>
    /\ \E i \in 1..Len(instruments[rt.cur].voices) :
          /\ IsVoiceActive(instruments[rt.cur].voices[i])
          /\ instruments[rt.cur].voices[i].pcm = "owned"

-----------------------------------------------------------------------------
(* OrderSpec: the order of a chain.  Two chains hold a delay and a filter, *)
(* one as [Delay, Filter] and one as [Filter, Delay], both prepared at the *)
(* engine's rate.  processEffectsChain runs both on the same blocks: an    *)
(* impulse in the first frame of the first block, then silence.            *)

\* Delay settings: delay times of 1 ms and 1 s (1 and 2 frames of the line),
\* feedback 0.4 and 0.95, wet level 0, 0.5 and 1.
OrderDelayInputs ==
    {[delayTime |-> t, feedback |-> f, wetLevel |-> w] :
        t \in {ParamOne, 1000 * ParamOne}, f \in {8, 19}, w \in {0, 10, 20}}

\* Filter settings: the three filter types.
OrderFilterInputs ==
    {[cutoff |-> 1000 * ParamOne, resonance |-> 14, type |-> t] : t \in {0, 1, 2}}

\* The impulse: its left and right sample.
ImpulseInputs == {<<40, 40>>, <<-100, 60>>}

\* The blocks after the first that a chain is run on.
TailBlockInputs == {1, 2}

\* A block of n frames: the impulse, then silence.
ImpulseBlock(amp, n) == [f \in 1..n |-> IF f = 1 THEN amp ELSE <<0, 0>>]

\* addEffect(Delay), addEffect(Filter) and the setters, in the two orders:
\* both chains freshly prepared.
PrepareChains(d, f) ==
    /\ LET delay == [NewEffect(1, "Delay", EngineRate) EXCEPT !.params = d]
           filter == [NewEffect(2, "Filter", EngineRate) EXCEPT !.params = f]
       IN  chains' = [df |-> <<delay, filter>>, fd |-> <<filter, delay>>,
                      fed |-> 0, inp |-> <<>>, outDF |-> <<>>, outFD |-> <<>>]
    /\ UNCHANGED <<voiceVars, engineVars, threadVars, dangling, deviceVars,
                   dly>>

\* processEffectsChain of both chains on the block buf
ProcessBoth(buf) ==
    LET a == ProcessEffectsFrom(chains.df, buf, 1, EngineRate)
        b == ProcessEffectsFrom(chains.fd, buf, 1, EngineRate)
    IN  chains' = [df |-> a.chain, fd |-> b.chain, fed |-> chains.fed + 1,
                   inp |-> buf, outDF |-> a.buf, outFD |-> b.buf]

ProcessImpulse(amp, n) ==
    /\ chains.df # <<>> /\ chains.fed = 0
    /\ ProcessBoth(ImpulseBlock(amp, n))
    /\ UNCHANGED <<voiceVars, engineVars, threadVars, dangling, deviceVars,
                   dly>>

ProcessSilence(n) ==
    /\ chains.fed \in TailBlockInputs
    /\ ProcessBoth(Silence(n))
    /\ UNCHANGED <<voiceVars, engineVars, threadVars, dangling, deviceVars,
                   dly>>

OrderNext ==
    \/ \E d \in OrderDelayInputs, f \in OrderFilterInputs : PrepareChains(d, f)
    \/ \E amp \in ImpulseInputs, n \in 1..(MaxBlock + 1) : ProcessImpulse(amp, n)
    \/ \E n \in 1..(MaxBlock + 1) : ProcessSilence(n)

OrderSpec == Init /\ [][OrderNext]_vars

\* The delay of the chain [Delay, Filter].
ChainDelay == chains.df[1]

\* C25 as stated: after the impulse block, with a feedback above 0 and both
\* chains freshly prepared, the output of [Delay, Filter] differs from the
\* output of [Filter, Delay].
C25_OrdersDiffer == chains.fed = 1 => chains.outDF # chains.outFD

\* C25, amended: a chain applies its effects in chain order, each on the
\* output of the one before it and on its own state, so [Delay, Filter]
\* filters the delay's output and [Filter, Delay] delays the filter's; with
\* a wet level of 0 the delay passes its input on and the two orders give
\* the same output.
C25_ChainOrderIsApplicationOrder ==
    [][chains'.fed = chains.fed + 1 =>
        LET d1 == EffectProcessBlock(chains.df[1], chains'.inp, EngineRate)
            f1 == EffectProcessBlock(chains.df[2], d1.buf, EngineRate)
            f2 == EffectProcessBlock(chains.fd[1], chains'.inp, EngineRate)
            d2 == EffectProcessBlock(chains.fd[2], f2.buf, EngineRate)
        IN  /\ chains'.outDF = f1.buf /\ chains'.df = <<d1.e, f1.e>>
            /\ chains'.outFD = d2.buf /\ chains'.fd = <<f2.e, d2.e>>
            /\ ChainDelay.params.wetLevel = 0 => chains'.outDF = chains'.outFD]_vars

\* The impulse block has gone through both chains, the delay has a feedback
\* above 0 and a wet level of 0, and the two outputs are the same sounding
\* block.
C25_Witness ==
    /\ chains.fed = 1
    /\ chains.inp[1] = <<-100, 60>>
    /\ ChainDelay.params.feedback > 0 /\ ChainDelay.params.wetLevel = 0
    /\ chains.outDF = chains.outFD
    /\ chains.outDF # Silence(Len(chains.inp))

-----------------------------------------------------------------------------
(* SizeSpec: the size of mixBuffer and the frames of a callback.           *)
(* audioDeviceAboutToStart sizes mixBuffer to two channels of the buffer   *)
(* size the device reports.  The device manager calls it before the first  *)
(* callback and never beside one; the number of frames of a callback is    *)
(* the device's choice, block by block.  The callback passes mixBuffer and *)
(* its own frame count to the instrument and never looks at the size of    *)
(* mixBuffer: a block longer than mixBuffer is rendered past its end.      *)

\* What the device reports when it starts: buffer sizes of 1 frame and of
\* MaxBlock frames.
SizeDeviceInputs ==
    {[rate |-> EngineRate, block |-> b] : b \in {1, MaxBlock}}

\* The device has started and is not starting again.
DeviceRuns == device.pc = "idle" /\ device.block > 0

\* An instrument renders n frames into mix: mix has the two channels and
\* the n frames.
MixBufferHolds(mix, n) == mix.chans >= 2 /\ mix.frames >= n

\* The block out with every frame that lies past the end of a buffer of
\* `frames` frames holding, in the two channels mixed, whatever lay there.
PastTheEnd(out, frames, junk) ==
    [ch \in DOMAIN out |->
        [f \in DOMAIN out[ch] |->
            IF ch <= 2 /\ f > frames THEN junk ELSE out[ch][f]]]

\* audioDeviceIOCallbackWithContext on a running device, the whole
\* callback.  With an instrument in the map and more frames than mixBuffer
\* has, the render and addFrom run past the end of mixBuffer: the process
\* may go down, and the frames past the end are whatever lay there.
SizedCallback(numOut, n, fill) ==
    /\ CanCall /\ CanLock /\ rt.pc = "idle" /\ DeviceRuns
    /\ \E r \in {AudioCallbackOn(instruments, masterVolume,
                                  DeviceBuffer(numOut, n, fill),
                                  StaleMix(n, 0), n)} :
          /\ instruments' = r.insts
          /\ IF instruments = NoInstruments \/ MixBufferHolds(mixBuffer, n)
             THEN outputBuffer' = r.out /\ UNCHANGED crashed
             ELSE /\ crashed' \in BOOLEAN
                  /\ \E junk \in MixFillInputs :
                        outputBuffer' = PastTheEnd(r.out, mixBuffer.frames, junk)
    /\ outShape' = [chans |-> numOut, frames |-> n]
    /\ ret' = Ret("callback", 0, fill, FALSE, 0, instruments # NoInstruments)
    /\ UNCHANGED <<masterVolume, voiceVars, instrumentLock, ctl, rt, dangling,
                   deviceVars, chains, dly>>

SizeNext ==
    \/ \E c \in OscChannelInputs, cfg \in OscNotesConfigInputs :
          createOscillatorInstrument(c, cfg)
    \/ \E c \in SmpChannelInputs, cfg \in SmpNotesConfigInputs :
          createMultiSamplerInstrument(c, cfg)
    \/ \E c \in MixChannelInputs : removeInstrument(c)
    \/ \E c \in MixChannelInputs : noteOn(c, 60, VelOne)
    \/ \E d \in SizeDeviceInputs : DevStartRate(d)
    \/ DevStartBlock
    \/ DevStartPrepare
    \/ \E n \in 1..MaxBlock, fill \in FillInputs : SizedCallback(2, n, fill)

SizeSpec == Init /\ [][SizeNext]_vars

\* C31: whenever a callback has had an instrument render into mixBuffer,
\* mixBuffer held two channels of at least as many frames as the callback
\* had.
C31_MixBufferHoldsBlock ==
    (ret.op = "callback" /\ ret.hit /\ outShape.frames > 0)
        => MixBufferHolds(mixBuffer, outShape.frames)

-----------------------------------------------------------------------------
(* StageSpec: the stages of an oscillator instrument's render.  The        *)
(* instrument of channel 1 plays a note while effects are added, removed   *)
(* and switched on and off, and the device asks for blocks.                *)

StageNext ==
    \/ \E c \in OscChannelInputs, cfg \in EffectOscConfigInputs :
          createOscillatorInstrument(c, cfg)
    \/ \E c \in OscChannelInputs, type \in EffectTypeInputs :
          IdsBelow(c, Cardinality(ToggleIdInputs)) /\ addEffect(c, type)
    \/ \E c \in OscChannelInputs, id \in ToggleIdInputs : removeEffect(c, id)
    \/ \E c \in OscChannelInputs, id \in ToggleIdInputs, flag \in BOOLEAN :
          setEffectEnabled(c, id, flag)
    \/ \E c \in OscChannelInputs : noteOn(c, 60, VelOne)
    \/ \E c \in OscChannelInputs, n \in {MaxBlock} :
          DelayLinesTake(c, n) /\ audioDeviceIOCallback(2, n, 0)

StageSpec == Init /\ [][StageNext]_vars

\* The ids of a chain, in chain order.
ChainIds(chain) == [i \in 1..Len(chain) |-> chain[i].id]

\* The block buf after the effects of the sequence en, the first first, each
\* on the block the one before it has left.
RECURSIVE ThroughEffects(_, _, _)
ThroughEffects(en, buf, rate) ==
    IF en = <<>> THEN buf
    ELSE ThroughEffects(Tail(en), EffectProcessBlock(Head(en), buf, rate).buf, rate)

\* C32: the block an oscillator instrument gives the device is the block of
\* its voices, then put through its enabled effects in chain order, each on
\* the output of the one before, then through volume and pan; the chain is
\* in the order its effects were added (ids ascending); removeEffect(id)
\* leaves the other effects as they were and in their order, and
\* setEffectEnabled leaves the order alone.
C32_RenderStagesInOrder ==
    [][/\ \A c \in DOMAIN instruments' :
            LET ids == ChainIds(instruments'[c].effects)
            IN  \A i, j \in DOMAIN ids : i < j => ids[i] < ids[j]
       /\ (ret'.op = "callback" /\ IsOscillator(instruments, 1)) =>
            LET inst == instruments[1]
                n == outShape'.frames
                s == SynthRenderFrom(inst.voices, 1, n, Silence(n))
                b == applyVolumeAndPan(
                         ThroughEffects(EnabledOnly(inst.effects), s.buf, inst.rate),
                         inst.volume, inst.pan)
            IN  /\ instruments'[1].voices = s.voices
                /\ \A ch \in 1..2, f \in 1..n : outputBuffer'[ch][f] = b[f][ch]
       /\ (ret'.op = "removeEffect" /\ IsOscillator(instruments, ret'.chan)) =>
            LET c == ret'.chan
                old == instruments[c].effects
                new == instruments'[c].effects
                gone == {i \in 1..Len(old) : old[i].id = ret'.arg}
            IN  /\ Cardinality(gone) <= 1
                /\ Len(new) = Len(old) - Cardinality(gone)
                /\ \A i \in 1..Len(old) \ gone :
                      new[i - Cardinality({k \in gone : k < i})] = old[i]
                /\ instruments' = [instruments EXCEPT ![c].effects = new]
       /\ ret'.op = "setEffectEnabled" =>
            \A c \in DOMAIN instruments :
                ChainIds(instruments'[c].effects) = ChainIds(instruments[c].effects)
      ]_vars

\* C32 witness: the first of two effects has been removed, and a block that
\* sounds has been rendered through the one that stayed, an enabled delay.
C32_Witness ==
    /\ ret.op = "callback"
    /\ IsOscillator(instruments, 1)
    /\ instruments[1].nextEffectId = 3
    /\ ChainIds(instruments[1].effects) = <<2>>
    /\ instruments[1].effects[1].type = "Delay"
    /\ instruments[1].effects[1].enabled
    /\ \E f \in DOMAIN outputBuffer[1] : outputBuffer[1][f] # 0

-----------------------------------------------------------------------------
(* DelaySpec: one SimpleDelayProcessor under the calls of its interface:   *)
(* the constructor, prepareToPlay, releaseResources, setDelayTime and      *)
(* processBlock, in any order.  Rates are in frames per second here, so    *)
(* the line of two seconds holds twice the rate in frames.                 *)

\* The rates prepared for: one that leaves the line empty, and lines of 2
\* and of 4 frames.
DelayRateInputs == {0, 1, 2}

\* The delay times asked for, in ms: below the setter's range, 1 ms, 600 ms,
\* 1500 ms, 2000 ms, above the range.
DelayTimeInputs ==
    {t * ParamOne : t \in {-5, 1, 600, 1500, 2000, 5000}}

\* The blocks processed: n frames of one frame value.
DelayFrame == <<8, -4>>
DelayBlockInputs == {[f \in 1..n |-> DelayFrame] : n \in 1..(MaxBlock + 1)}

\* SimpleDelayProcessor(): empty lines, writePosition 0, 500 ms, the rate
\* 44100.
DelayConstruct ==
    /\ dly' = [op |-> "new", rate |-> EngineRate, frames |-> 0, hist |-> <<>>,
               e |-> [NewEffect(1, "Delay", 0) EXCEPT !.mem.line = <<>>]]
    /\ UNCHANGED <<voiceVars, engineVars, threadVars, dangling, deviceVars,
                   chains>>

\* SimpleDelayProcessor::prepareToPlay
DelayPrepareToPlay(rate) ==
    /\ dly.op # "none"
    /\ dly' = [op |-> "prepareToPlay", rate |-> rate, frames |-> 0,
               hist |-> <<>>, e |-> EffectPrepareToPlay(dly.e, rate)]
    /\ UNCHANGED <<voiceVars, engineVars, threadVars, dangling, deviceVars,
                   chains>>

\* "delayBufferL.clear(); delayBufferR.clear();"
DelayReleased(e) == [e EXCEPT !.mem.line = <<>>]

\* SimpleDelayProcessor::releaseResources
DelayReleaseResources ==
    /\ dly.op # "none"
    /\ dly' = [dly EXCEPT !.op = "releaseResources", !.frames = 0,
                          !.hist = <<>>, !.e = DelayReleased(@)]
    /\ UNCHANGED <<voiceVars, engineVars, threadVars, dangling, deviceVars,
                   chains>>

\* SimpleDelayProcessor::setDelayTime
DelaySetDelayTime(ms) ==
    /\ dly.op # "none"
    /\ dly' = [dly EXCEPT !.op = "setDelayTime", !.frames = 0,
                          !.e = SetParam(@, "delayTime", ms)]
    /\ UNCHANGED <<voiceVars, engineVars, threadVars, dangling, deviceVars,
                   chains>>

\* The delay processor e after the first k frames of a block.
DelayAfter(e, rate, k) ==
    DelayProcessFrom(e, [f \in 1..k |-> DelayFrame], 1, rate).e

\* What frame j of a block has written into the line of e.
DelayWrote(e, rate, j) ==
    DelayAfter(e, rate, j).mem.line[DelayAfter(e, rate, j - 1).mem.wp + 1]

\* The history after the first k frames of a block: what the frames have
\* written, the last first, before what was written earlier; no more than
\* the line holds.
HistoryAfter(e, rate, hist, k) ==
    IF e.mem.line = <<>> THEN hist
    ELSE LET all == [i \in 1..k |-> DelayWrote(e, rate, k + 1 - i)] \o hist
         IN  IF Len(all) <= Len(e.mem.line) THEN all
             ELSE SubSeq(all, 1, Len(e.mem.line))

\* SimpleDelayProcessor::processBlock on the block buf
DelayProcessBlock(buf) ==
    /\ dly.op # "none"
    /\ dly' = [dly EXCEPT !.op = "processBlock", !.frames = Len(buf),
                          !.hist = HistoryAfter(dly.e, dly.rate, @, Len(buf)),
                          !.e = DelayProcessFrom(@, buf, 1, dly.rate).e]
    /\ UNCHANGED <<voiceVars, engineVars, threadVars, dangling, deviceVars,
                   chains>>

DelayNext ==
    \/ DelayConstruct
    \/ \E rate \in DelayRateInputs : DelayPrepareToPlay(rate)
    \/ DelayReleaseResources
    \/ \E ms \in DelayTimeInputs : DelaySetDelayTime(ms)
    \/ \E buf \in DelayBlockInputs : DelayProcessBlock(buf)

DelaySpec == Init /\ [][DelayNext]_vars

\* The delay processor as it is before frame k + 1 of the block a
\* processBlock step works on.
DelayBefore(k) == DelayAfter(dly.e, dly.rate, k)

\* The index i lies in the line of e.
InLine(e, i) == i >= 0 /\ i < Len(e.mem.line)

\* At every frame of the block a processBlock step works on, the index
\* read, the index written and the delay in frames lie in the line.
AccessesInLine ==
    \A k \in 0..(dly'.frames - 1) :
        LET e == DelayBefore(k)
        IN  /\ InLine(e, e.mem.wp)
            /\ InLine(e, DelayReadPos(e, dly.rate))
            /\ DelaySamples(e, dly.rate) <= Len(e.mem.line) - 1

C34_LineGetsDryPlusFeedback ==
    [][(dly'.op = "processBlock" /\ dly.e.mem.line # <<>>) =>
          \A j \in 1..dly'.frames :
              LET a == DelayBefore(j - 1)
                  b == IF j = dly'.frames THEN dly'.e ELSE DelayBefore(j)
                  d == DelaySamples(a, dly.rate)
                  delayed == a.mem.line[DelayReadPos(a, dly.rate) + 1]
                  past == HistoryAfter(dly.e, dly.rate, dly.hist, j - 1)
              IN  /\ \A ch \in 1..2 :
                        b.mem.line[a.mem.wp + 1][ch] =
                            DelayFrame[ch]
                            + (delayed[ch] * a.params.feedback) \div ParamOne
                  /\ \A i \in 1..Len(a.mem.line) :
                        i # a.mem.wp + 1 => b.mem.line[i] = a.mem.line[i]
                  /\ Len(past) >= d => delayed = past[d]]_vars

\* C34 witness: blocks have gone round a line of four frames with a delay
\* of three frames, and the frame just read was one a block before this
\* one had written, itself holding fed-back sound.
C34_Witness ==
    /\ dly.op = "processBlock" /\ dly.frames = 1
    /\ Len(dly.e.mem.line) = 4 /\ Len(dly.hist) = 4
    /\ DelaySamples(dly.e, dly.rate) = 3
    /\ dly.e.params.feedback > 0
    /\ dly.hist[1][1] > dly.hist[4][1] /\ dly.hist[4][1] > DelayFrame[1]

-----------------------------------------------------------------------------
(* PoolSpec: the voice pools.  An oscillator instrument on channel 1 and a *)
(* sampler on channel 16 are created with polyphonies from below zero to   *)
(* two, and get notes, parameters, effects and samples.                    *)

\* The polyphonies asked for: negative, none, two voices.
PolyphonyInputs == {-1, 0, 2}

PoolOscConfigInputs ==
    {[polyphony |-> n, waveform |-> "Square", adsr |-> EnvTail,
      volume |-> GainOne, pan |-> GainOne \div 2] : n \in PolyphonyInputs}
PoolSmpConfigInputs ==
    {[polyphony |-> n, adsr |-> EnvTail, volume |-> GainOne,
      pan |-> GainOne \div 2] : n \in PolyphonyInputs}

PoolNext ==
    \/ \E c \in OscChannelInputs, cfg \in PoolOscConfigInputs :
          createOscillatorInstrument(c, cfg)
    \/ \E c \in SmpChannelInputs, cfg \in PoolSmpConfigInputs :
          createMultiSamplerInstrument(c, cfg)
    \/ \E c \in MixChannelInputs, note \in NoteInputs : noteOn(c, note, VelOne)
    \/ \E c \in MixChannelInputs : allNotesOff(c)
    \/ \E c \in MixChannelInputs : setADSR(c, EnvGate)
    \/ \E c \in OscChannelInputs : IdsBelow(c, MaxEffects) /\ addEffect(c, "Filter")
    \/ \E c \in OscChannelInputs : removeEffect(c, 1)
    \/ \E c \in MixChannelInputs :
          /\ BankBelow(c, MaxSounds)
          /\ loadSampleFromBase64(c, 0, Base64Raw(MaxLen), EngineRate, 1,
                                  DefaultSampleConfig)
    \/ \E c \in MixChannelInputs : clearAllSamples(c)

PoolSpec == Init /\ [][PoolNext]_vars

\* The number of voices of inst that are playing.
ActiveVoices(inst) ==
    Cardinality({i \in 1..Len(inst.voices) : IsVoiceActive(inst.voices[i])})

\* C35 as stated: every instrument has as many voices as the polyphony it
\* was constructed with, no call but a create call changes the number, and
\* no more voices play than the polyphony.
C35_VoicesEqualPolyphony ==
    [][/\ \A c \in DOMAIN instruments' :
            /\ Len(instruments'[c].voices) = instruments'[c].polyphony
            /\ ActiveVoices(instruments'[c]) <= instruments'[c].polyphony
       /\ ret'.op \notin CreateCalls =>
            \A c \in DOMAIN instruments' :
                /\ c \in DOMAIN instruments
                /\ Len(instruments'[c].voices) = Len(instruments[c].voices)]_vars

\* C35, amended: every instrument has as many voices as the polyphony it
\* was constructed with, and none when that is below zero; no call but a
\* create call changes the number or the polyphony; and no more voices play
\* than the instrument has.
C35_VoicesEqualPolyphonyFromZero ==
    [][/\ \A c \in DOMAIN instruments' :
            LET inst == instruments'[c]
            IN  /\ Len(inst.voices) = IF inst.polyphony < 0 THEN 0 ELSE inst.polyphony
                /\ ActiveVoices(inst) <= Len(inst.voices)
       /\ ret'.op \notin CreateCalls =>
            \A c \in DOMAIN instruments' :
                /\ c \in DOMAIN instruments
                /\ Len(instruments'[c].voices) = Len(instruments[c].voices)
                /\ instruments'[c].polyphony = instruments[c].polyphony]_vars

\* C35 witness: a noteOn has come to an instrument of two voices that plays
\* on both, beside an instrument made with a polyphony below zero.
C35_Witness ==
    /\ ret.op = "noteOn" /\ ret.chan \in DOMAIN instruments
    /\ instruments[ret.chan].polyphony = 2
    /\ ActiveVoices(instruments[ret.chan]) = 2
    /\ \E v \in 1..2 : instruments[ret.chan].voices[v].adsr.state = "release"
    /\ \E c \in DOMAIN instruments : instruments[c].polyphony < 0

-----------------------------------------------------------------------------
(* ZoneSpec: the note ranges of a sampler's sounds.  A sampler of two      *)
(* voices on channel 16 gets sounds for the notes below 60, the notes from *)
(* 60 up and, as loaded with the default ranges, for every note, in slots  *)
(* 0 and 1, and notes of both zones.                                       *)

ZoneSmpConfigInputs ==
    {[polyphony |-> 2, adsr |-> EnvTail, volume |-> GainOne, pan |-> GainOne \div 2]}

ZoneInputs == {LowZone, HighZone, DefaultSampleConfig}

ZoneSlotInputs == {0, 1}

ZoneNext ==
    \/ \E c \in SmpChannelInputs, cfg \in ZoneSmpConfigInputs :
          createMultiSamplerInstrument(c, cfg)
    \/ \E c \in SmpChannelInputs, slot \in ZoneSlotInputs, zone \in ZoneInputs :
          /\ BankBelow(c, MaxBank)
          /\ loadSampleFromBase64(c, slot, Base64Raw(MaxLen), EngineRate, 1, zone)
    \/ \E c \in SmpChannelInputs : clearAllSamples(c)
    \/ \E c \in SmpChannelInputs, note \in NoteInputs : noteOn(c, note, VelOne)
    \/ \E c \in SmpChannelInputs : allNotesOff(c)
    \/ RenderBlock

ZoneSpec == Init /\ [][ZoneNext]_vars

\* The voices that play after a call and did not before it.
NewlyPlaying(old, new) ==
    {v \in 1..Len(new) : ~IsVoiceActive(old[v]) /\ IsVoiceActive(new[v])}

\* C36: a noteOn on a sampler makes at most one voice play that did not,
\* and it plays the data of a loaded sound whose note range holds the note;
\* a noteOn of a note that no loaded sound's range holds leaves every voice
\* as it was.
C36_NoteOnStartsOneSound ==
    [][(ret'.op = "noteOn" /\ IsSampler(instruments, ret'.chan)) =>
          LET inst == instruments[ret'.chan]
              new == instruments'[ret'.chan].voices
              started == NewlyPlaying(inst.voices, new)
          IN  /\ Cardinality(started) <= 1
              /\ \A v \in started :
                    \E k \in SoundsFor(inst, ret'.arg) :
                        /\ new[v].root = inst.sounds[k].root
                        /\ new[v].len = inst.sounds[k].len
              /\ SoundsFor(inst, ret'.arg) = {} => new = inst.voices]_vars

-----------------------------------------------------------------------------
(* ToneSpec: the three oscillators of one oscillator voice.  The voice of  *)
(* VoiceSpec, at 22050 Hz or 44100 Hz, gets notes, parameter sets that     *)
(* switch oscillator 2 and the sub-oscillator off and on and move          *)
(* oscillator 2 up an octave, detunes of an octave, and blocks.  On the    *)
(* model's frequency scale note 72 sounds at the rate 22050 Hz, so that    *)
(* the octave above it stands for a frequency above the sample rate.       *)

ToneRateInputs == {1, 2}

ToneNoteInputs == {60, 72}

ToneDetuneInputs == {0, 1200}

VoiceParamsInputs ==
    {[waveform1 |-> "Saw", detuneCents1 |-> 0, waveform2 |-> "Saw",
      detuneCents2 |-> 0, osc2Level |-> on[1], osc2Semi |-> on[2],
      subLevel |-> on[1]] : on \in {<<0, 0>>, <<GainOne, 0>>, <<GainOne, 12>>}}

\* The most turns a phase accumulator is followed through.
MaxTurns == 1

ToneInit ==
    /\ voice = NewVoice("osc", EnvGate)
    /\ vrate \in ToneRateInputs
    /\ vblock = [n |-> 0, frames |-> <<>>, reads |-> {}]
    /\ vop = "init"
    /\ EngineInit
    /\ ThreadInit
    /\ DeviceInit

\* Synthesiser::noteOn reaching the voice.
ToneStartNote ==
    /\ \E note \in ToneNoteInputs :
          voice' = StartVoice(voice, note, VelOne, BasicSynthSound, vrate)
    /\ vop' = "start"
    /\ UNCHANGED <<vrate, vblock, engineVars, threadVars, dangling,
                   deviceVars, chains, dly>>

\* Instrument::setVoiceParams reaching the voice.
ToneSetVoiceParams ==
    /\ \E params \in VoiceParamsInputs : voice' = OscSetVoiceParams(voice, params)
    /\ vop' = "setVoiceParams"
    /\ UNCHANGED <<vrate, vblock, engineVars, threadVars, dangling,
                   deviceVars, chains, dly>>

\* Instrument::setDetune reaching the voice.
ToneSetDetune ==
    /\ \E cents \in ToneDetuneInputs : voice' = OscSetDetune(voice, cents)
    /\ vop' = "setDetune"
    /\ UNCHANGED <<vrate, vblock, engineVars, threadVars, dangling,
                   deviceVars, chains, dly>>

\* Synthesiser::renderNextBlock reaching the voice, while no phase has gone
\* MaxTurns turns.
ToneRenderNextBlock ==
    /\ \A ph \in {voice.phase1, voice.phase2, voice.phaseSub} :
          ph < MaxTurns * PhaseCycle
    /\ VRenderNextBlock

ToneNext ==
    \/ ToneStartNote
    \/ VStopNote
    \/ ToneSetVoiceParams
    \/ ToneSetDetune
    \/ ToneRenderNextBlock

ToneSpec == ToneInit /\ [][ToneNext]_vars

\* A phase lies in [0, one full cycle).
InCycle(phase) == phase >= 0 /\ phase < PhaseCycle

\* C37: after a block the three phase accumulators of a voice that plays
\* lie in [0, one full cycle).
C37_PhasesInCycle ==
    (vop = "render" /\ IsVoiceActive(voice)) =>
        /\ InCycle(voice.phase1)
        /\ InCycle(voice.phase2)
        /\ InCycle(voice.phaseSub)

\* C38: in a block in which oscillator 2 adds to the voice's output, its
\* phase increment is the one of the note the voice plays under the
\* semitone and cents offset in force; likewise the sub-oscillator's, an
\* octave below oscillator 1.
C38_IncrementsFollowNote ==
    [][(vop' = "render" /\ IsVoiceActive(voice) /\ vblock'.frames # <<>>) =>
          /\ voice.level2 > 0 => voice.delta2 = Osc2DeltaOf(voice, voice.note, vrate)
          /\ voice.subLevel > 0 =>
                voice.deltaSub = SubDeltaOf(voice.note, voice.detune1, vrate)]_vars

-----------------------------------------------------------------------------
(* LockSpec: who waits for instrumentLock.  Three threads ask for it: a    *)
(* control thread, for the calls that hold it while they work on the map   *)
(* or call into every instrument; the audio thread, for the callback's     *)
(* loop; and the thread that starts the device.  A thread that asks is     *)
(* seen waiting before it holds the lock.  The device manager runs         *)
(* audioDeviceAboutToStart and the callbacks one at a time, and            *)
(* removeAudioCallback returns once no callback is under way.  FairSpec    *)
(* is LockSpec under a fair scheduler: a thread that can take a step takes *)
(* it, and a thread that waits for a lock that is free again and again     *)
(* gets it.                                                                *)

\* The calls of the control thread that hold the lock for all they do.
LockedCalls == {"allNotesOffAllChannels", "clearAllInstruments",
                "createOscillatorInstrument", "shutdown"}

LockDeviceInputs == {[rate |-> EngineRate, block |-> 1]}

\* outputBuffer lives as long as the callback does.
CallbackBufferKept ==
    IF rt.pc = "idle" THEN NoOutputBuffer
    ELSE UNCHANGED <<outputBuffer, outShape>>

\* A locked call is made.  Every one but shutdown starts with its
\* ScopedLock; shutdown starts with removeAudioCallback.
CtlCall(op) ==
    /\ CanCall
    /\ ctl' = [pc |-> IF op = "shutdown" THEN "close" ELSE "wait",
               op |-> op, chan |-> 1]
    /\ CallbackBufferKept
    /\ UNCHANGED <<instruments, masterVolume, ret, instrumentLock, rt, crashed,
                   voiceVars, dangling, deviceVars, chains, dly>>

\* removeAudioCallback has the device manager's callback lock: neither a
\* callback nor audioDeviceAboutToStart is under way.
CallbackGone == rt.pc = "idle" /\ device.pc \in {"idle", "closed"}

\* "deviceManager.removeAudioCallback(this); deviceManager.closeAudioDevice();"
\* of shutdown: no callback comes after them.
CtlCloseDevice ==
    /\ ~crashed /\ ctl.pc = "close"
    /\ CallbackGone
    /\ device' = [device EXCEPT !.pc = "closed"]
    /\ ctl' = [ctl EXCEPT !.pc = "wait"]
    /\ CallbackBufferKept
    /\ UNCHANGED <<instruments, masterVolume, ret, instrumentLock, rt, crashed,
                   voiceVars, dangling, currentSampleRate, currentBlockSize,
                   mixBuffer, chains, dly>>

\* "juce::ScopedLock lock(instrumentLock);" returns to the control thread.
CtlLock ==
    /\ ~crashed /\ ctl.pc = "wait" /\ CanLock
    /\ instrumentLock' = "ctl"
    /\ ctl' = [ctl EXCEPT !.pc = "held"]
    /\ CallbackBufferKept
    /\ UNCHANGED <<instruments, masterVolume, ret, rt, crashed, voiceVars,
                   dangling, deviceVars, chains, dly>>

\* The control thread keeps the lock when its call returns.
LockAfterCallKept == "ctl"

\* The lock after the call's ScopedLock has gone out of scope.
LockAfterCall == "free"

\* The call does its work under the lock and returns; the lock is released.
CtlUnlock ==
    /\ ~crashed /\ ctl.pc = "held"
    /\ instruments' =
          CASE ctl.op = "allNotesOffAllChannels" ->
                  [c \in DOMAIN instruments |-> InstrAllNotesOff(instruments[c])]
            [] ctl.op \in {"clearAllInstruments", "shutdown"} ->
                  MapClear(instruments)
            [] ctl.op = "createOscillatorInstrument" ->
                  \* OscConfigInputs holds one configuration
                  MapAssign(instruments, ctl.chan,
                      prepareInstrumentWrapper(
                          NewOscillatorInstrument(CHOOSE cfg \in OscConfigInputs : TRUE),
                          currentSampleRate, currentBlockSize))
    /\ ret' = Ret(ctl.op, ctl.chan, 0, ctl.op = "createOscillatorInstrument", 0,
                  hasInstrument(instruments, ctl.chan))
    /\ instrumentLock' = LockAfterCall
    /\ ctl' = [pc |-> "idle", op |-> "none", chan |-> 0]
    /\ CallbackBufferKept
    /\ UNCHANGED <<masterVolume, rt, crashed, voiceVars, dangling, deviceVars,
                   chains, dly>>

\* The device calls the callback: outputBuffer.clear(), and the callback
\* asks for the lock.
RtCall(numOut, n, fill) ==
    /\ ~crashed /\ rt.pc = "idle" /\ DeviceRuns
    /\ outputBuffer' = BufferClear(DeviceBuffer(numOut, n, fill))
    /\ outShape' = [chans |-> numOut, frames |-> n]
    /\ rt' = [pc |-> "wait", cur |-> 0, todo |-> {}]
    /\ UNCHANGED <<instruments, masterVolume, ret, instrumentLock, ctl, crashed,
                   voiceVars, dangling, deviceVars, chains, dly>>

\* The callback's ScopedLock returns: its loop begins.
RtLock ==
    /\ ~crashed /\ rt.pc = "wait" /\ CanLock
    /\ instrumentLock' = "rt"
    /\ rt' = [pc |-> "loop", cur |-> 0, todo |-> DOMAIN instruments]
    /\ UNCHANGED <<engineVars, ctl, crashed, voiceVars, dangling, deviceVars,
                   chains, dly>>

\* audioDeviceAboutToStart is called, between callbacks.
DevCall(d) ==
    /\ rt.pc = "idle"
    /\ DevStartRate(d)

\* The ScopedLock of audioDeviceAboutToStart returns.
DevLock ==
    /\ ~crashed /\ device.pc = "block" /\ CanLock
    /\ instrumentLock' = "dev"
    /\ device' = [device EXCEPT !.pc = "prepare"]
    /\ NoOutputBuffer
    /\ UNCHANGED <<instruments, masterVolume, ret, ctl, rt, crashed, voiceVars,
                   dangling, currentSampleRate, currentBlockSize, mixBuffer,
                   chains, dly>>

\* Its loop over the map is done; the lock is released.
DevUnlock ==
    /\ ~crashed /\ device.pc = "prepare"
    /\ instruments' = [c \in DOMAIN instruments |->
                          prepareInstrumentWrapper(instruments[c],
                                                   currentSampleRate,
                                                   currentBlockSize)]
    /\ ret' = Ret("audioDeviceAboutToStart", 0, 0, FALSE, 0,
                  instruments # NoInstruments)
    /\ instrumentLock' = "free"
    /\ device' = [device EXCEPT !.pc = "idle"]
    /\ NoOutputBuffer
    /\ UNCHANGED <<masterVolume, ctl, rt, crashed, voiceVars, dangling,
                   currentSampleRate, currentBlockSize, mixBuffer, chains, dly>>

\* The steps a thread takes on its own once it is under way.
ThreadSteps ==
    \/ CtlUnlock
    \/ RtRenderStart
    \/ RtSynthDone
    \/ RtRenderFinish
    \/ RtEnd
    \/ DevStartBlock
    \/ DevUnlock

LockNext ==
    \/ \E op \in LockedCalls : CtlCall(op)
    \/ CtlCloseDevice
    \/ CtlLock
    \/ RtCall(2, 1, 5)
    \/ RtLock
    \/ \E d \in LockDeviceInputs : DevCall(d)
    \/ DevLock
    \/ ThreadSteps

LockSpec == Init /\ [][LockNext]_vars

FairSpec ==
    /\ LockSpec
    /\ WF_vars(ThreadSteps)
    /\ SF_vars(CtlLock)
    /\ SF_vars(RtLock)
    /\ SF_vars(DevLock)

=============================================================================
